---- MODULE Spec2Model ----
(***************************************************************************)
(* State-machine model of the turf-map dashboards (src/app.py and the     *)
(* variants under src/old_apps/).  Every dashboard is a script that the   *)
(* framework runs from top to bottom on each user interaction; the state   *)
(* that survives between runs is the cached loader results, the widget     *)
(* values and the session state.  One action of the model is one user      *)
(* interaction together with the complete script run it triggers; the      *)
(* values the run computes are kept in the variable view.                  *)
(*                                                                         *)
(* Framework behaviour the scripts rely on:                                *)
(*  - a multiselect returns a subset of the options it is given;           *)
(*  - a widget without a key is identified by its arguments: when its      *)
(*    options differ from those of the previous run, or when it was not    *)
(*    rendered in the previous run, it starts again from its default;      *)
(*  - a value the script writes into session state under a widget's key    *)
(*    is the value that widget returns in the next run.                    *)
(***************************************************************************)
EXTENDS Integers, Sequences, FiniteSets, TLC

VARIABLES
    df_metrics,            \* the table returned by load_metrics (cached)
    geojson_data,          \* the feature list returned by load_geojson (cached)
    selected_regions_raw,  \* value of the "Select Region(s)" multiselect
    turfs_ms,              \* value of the "Select Turf(s)" multiselect
    view,                  \* what the last script run computed
    session_state,         \* st.session_state: key -> value
    output_dir,            \* the files of output/ that a run reads on demand
    df_upd,                \* aok2.py: the updated table (df_metrics is the original)
    runs,                  \* script runs so far, counted where sessions interleave
    hash_seed,             \* old_apps/app.py: the order in which each server process
                           \* enumerates a set of strings
    cache_data             \* aok2.py, aok3.py: the entries of st.cache_data,
                           \* <<path, mtime>> -> loaded table

vars == <<df_metrics, geojson_data, selected_regions_raw, turfs_ms, view,
          session_state, output_dir, df_upd, runs, hash_seed, cache_data>>

----------------------------------------------------------------------------
(* Bounds and sample values *)

\* largest number of rows of a dataset
NRows == 2

\* marker of a missing cell (pandas NaN / JSON null)
NaN == "NaN"

\* sample region and turf names, each list in ascending (lexicographic) order
RegionNames == <<"R01", "R02">>
TurfNames == <<"T1", "T2">>

\* The fixed palette of the map and the charts.
palette == <<
    "#e41a1c", "#377eb8", "#4daf4a", "#984ea3", "#ff7f00",
    "#ffff33", "#a65628", "#f781bf", "#999999", "#66c2a5",
    "#fc8d62", "#8da0cb", "#e78ac3", "#a6d854", "#ffd92f",
    "#e5c494", "#b3b3b3", "#1b9e77", "#d95f02", "#7570b3" >>

\* More turf names than the palette has colours, in ascending order.
WideTurfs ==
    [i \in 1..(Len(palette) + 2) |->
        IF i < 10 THEN "W0" \o ToString(i) ELSE "W" \o ToString(i)]

\* The sample names in Python's string order.
NameOrder == <<"P1", "P2", "P3", "P4", "R01", "R02", "T1", "T2">> \o WideTurfs

Range(s) == {s[i] : i \in DOMAIN s}

Regions == Range(RegionNames)
Turfs == Range(TurfNames)

AllColumns == {"van_precinct_id", "Current Region", "Current Turf", "voters", "supporters"}

----------------------------------------------------------------------------
(* Python / pandas helpers *)

Rank(name) == CHOOSE i \in DOMAIN NameOrder : NameOrder[i] = name

\* sorted(S): the elements of S as an ascending list
RECURSIVE sorted(_)
sorted(S) ==
    IF S = {} THEN <<>>
    ELSE LET m == CHOOSE x \in S : \A y \in S : Rank(x) <= Rank(y)
         IN  <<m>> \o sorted(S \ {m})

\* Series.sum(): the sum of a list of numbers
RECURSIVE Sum(_)
Sum(s) == IF s = <<>> THEN 0 ELSE Head(s) + Sum(Tail(s))

\* one column of a list of rows
voters_col(rows) == [i \in DOMAIN rows |-> rows[i].voters]
supporters_col(rows) == [i \in DOMAIN rows |-> rows[i].supporters]

\* A scalar as a source file writes it: [num |-> n] the integer n,
\* [dec |-> n] the number n.0, [str |-> s] other text, [missing |-> TRUE] an
\* empty CSV cell or a JSON null.
\* str(x) of a JSON scalar: an int prints as digits, a float with its ".0",
\* a string is itself, None prints as "None"
str(x) ==
    IF "num" \in DOMAIN x THEN ToString(x.num)
    ELSE IF "dec" \in DOMAIN x THEN ToString(x.dec) \o ".0"
    ELSE IF "str" \in DOMAIN x THEN x.str
    ELSE "None"

\* Series.dropna().unique() of one column of a list of rows
RegionsOf(rows) == {rows[i].Current_Region : i \in DOMAIN rows} \ {NaN}
TurfsOf(rows) == {rows[i].Current_Turf : i \in DOMAIN rows} \ {NaN}

----------------------------------------------------------------------------
(* Loaders *)

\* the dtype pd.read_csv gives a column: int64 when every cell is an integer,
\* float64 when every cell is a number or empty, object otherwise
read_csv_dtype(cells) ==
    IF \A k \in DOMAIN cells : "num" \in DOMAIN cells[k] THEN "int64"
    ELSE IF \A k \in DOMAIN cells : "str" \notin DOMAIN cells[k] THEN "float64"
    ELSE "object"

\* astype(str) of one cell of a column of that dtype: an int64 prints as
\* digits, a float64 with its ".0", an object cell is the text of the file,
\* and a missing cell prints as "nan"
astype_str(dtype, cell) ==
    IF "missing" \in DOMAIN cell THEN "nan"
    ELSE IF "str" \in DOMAIN cell THEN cell.str
    ELSE IF dtype = "int64" THEN ToString(cell.num)
    ELSE IF "dec" \in DOMAIN cell THEN ToString(cell.dec) \o ".0"
    ELSE IF dtype = "float64" THEN ToString(cell.num) \o ".0"
    ELSE ToString(cell.num)

\* load_metrics: read the CSV and make the id column text
load_metrics(csv) ==
    LET dtype == read_csv_dtype([i \in DOMAIN csv.rows |-> csv.rows[i].van_precinct_id])
    IN  [columns |-> csv.columns,
         rows |-> [i \in DOMAIN csv.rows |->
                     [csv.rows[i] EXCEPT !.van_precinct_id = astype_str(dtype, @)]]]

\* load_geojson: read the feature list and make every feature's id text
load_geojson(features) ==
    [i \in DOMAIN features |->
        [features[i] EXCEPT !.van_precinct_id = str(@)]]

----------------------------------------------------------------------------
(* app.py: the script *)

ALL_REGIONS == "VA All Regions"

DEFAULT_FILL == "#3388ff"

\* regions: the sorted distinct non-missing regions of the table
regions(df) == RegionsOf(df.rows)

regions_with_all(df) == {ALL_REGIONS} \cup regions(df)

\* a variant that treats an empty choice as statewide
selected_regions_statewide(df, raw) ==
    IF raw \ {ALL_REGIONS} = {} THEN regions(df) ELSE raw \ {ALL_REGIONS}

\* selected_regions: the sentinel expands to every region
selected_regions(df, raw) ==
    IF ALL_REGIONS \in raw THEN regions(df) ELSE raw \ {ALL_REGIONS}

\* available_turfs: the options of the turf multiselect
available_turfs(df, sel) ==
    TurfsOf(SelectSeq(df.rows, LAMBDA r : r.Current_Region \in sel))

\* selected_turfs: the turf multiselect's value, [] when no region is active
selected_turfs(sel, ms) == IF sel # {} THEN ms ELSE {}

\* a variant that leaves out the turf filter
filtered_metrics_regions_only(df, sel, turfs) ==
    IF sel # {}
    THEN SelectSeq(df.rows, LAMBDA r : r.Current_Region \in sel)
    ELSE <<>>

\* filtered_metrics: the rows of the selection
filtered_metrics(df, sel, turfs) ==
    IF sel # {}
    THEN LET byRegion == SelectSeq(df.rows, LAMBDA r : r.Current_Region \in sel)
         IN  IF turfs # {}
             THEN SelectSeq(byRegion, LAMBDA r : r.Current_Turf \in turfs)
             ELSE byRegion
    ELSE <<>>

\* filter_df of aok2.py and aok3.py: the same filter as a function
filter_df(df, sel, turfs) ==
    IF sel = {}
    THEN <<>>
    ELSE LET out == SelectSeq(df.rows, LAMBDA r : r.Current_Region \in sel)
         IN  IF turfs # {}
             THEN SelectSeq(out, LAMBDA r : r.Current_Turf \in turfs)
             ELSE out

\* "Total Precincts in Filter"
total_precincts(filtered) == Len(filtered)

\* "Total Voters in Filter": the sum of voters, "0" without a voters column
total_voters(columns, filtered) ==
    IF "voters" \in columns THEN Sum(voters_col(filtered)) ELSE 0

\* f"{x:.1%}" of x = num/den (den > 0): x in tenths of a percent, rounded
\* to the nearest, a tie to the even one
pct1(num, den) ==
    LET q == (1000 * num) \div den
        r == (1000 * num) % den
    IN  IF 2 * r > den \/ (2 * r = den /\ q % 2 = 1) THEN q + 1 ELSE q

NA == "N/A"

\* "Support Rate": N/A unless both columns exist and the voters sum is positive
support_rate(columns, filtered) ==
    IF {"supporters", "voters"} \subseteq columns /\ Sum(voters_col(filtered)) > 0
    THEN [tenths |-> pct1(Sum(supporters_col(filtered)), Sum(voters_col(filtered)))]
    ELSE [text |-> NA]

\* unique_turfs: the sorted distinct non-missing turfs of the filtered rows
unique_turfs(filtered) == IF Len(filtered) > 0 THEN sorted(TurfsOf(filtered)) ELSE <<>>

\* a variant that counts the turfs from 1
turf_colors_map_from_one(turfs_sorted) ==
    [t \in Range(turfs_sorted) |->
        LET i == CHOOSE k \in DOMAIN turfs_sorted : turfs_sorted[k] = t
        IN  palette[(i % Len(palette)) + 1]]

\* turf_colors_map: the i-th turf (from 0) gets palette[i % len(palette)]
turf_colors_map(turfs_sorted) ==
    [t \in Range(turfs_sorted) |->
        LET i == CHOOSE k \in DOMAIN turfs_sorted : turfs_sorted[k] = t
        IN  palette[((i - 1) % Len(palette)) + 1]]

\* selected_ids: the id set of the filtered rows
selected_ids(filtered) == {filtered[i].van_precinct_id : i \in DOMAIN filtered}

\* a variant that joins on the region copy instead of the id
filtered_features_by_region(filtered, features) ==
    IF Len(filtered) > 0
    THEN SelectSeq(features, LAMBDA f : f.Current_Region \in RegionsOf(filtered))
    ELSE <<>>

\* filtered_features: the features whose id is an id of the filtered rows
filtered_features(filtered, features) ==
    IF Len(filtered) > 0
    THEN SelectSeq(features, LAMBDA f : f.van_precinct_id \in selected_ids(filtered))
    ELSE <<>>

\* style_function: the fill colour of a feature, looked up by the feature's
\* own Current Turf property
fillColor(colors, f) ==
    IF f.Current_Turf \in DOMAIN colors THEN colors[f.Current_Turf] ELSE DEFAULT_FILL

\* the rows of one group of groupby("Current Turf")
turf_group(filtered, t) == SelectSeq(filtered, LAMBDA r : r.Current_Turf = t)

\* turf_summary: per turf (rows with a missing turf belong to no group) the
\* voters and supporters sums, or the group size for a column the table
\* lacks, and the number of precincts
turf_summary(columns, filtered) ==
    IF Len(filtered) > 0
    THEN [t \in TurfsOf(filtered) |->
            LET g == turf_group(filtered, t)
            IN  [voters |-> IF "voters" \in columns THEN Sum(voters_col(g)) ELSE Len(g),
                 supporters |-> IF "supporters" \in columns
                                THEN Sum(supporters_col(g)) ELSE Len(g),
                 precinct_count |-> Len(g)]]
    ELSE <<>>

\* one run of the script
\* the four bounding-box columns of the table
BBOX_COLUMNS == {"min_lat", "min_lon", "max_lat", "max_lon"}

\* m.fit_bounds is not called: the map is left at its default view
NO_BOUNDS == <<>>

\* a cell of a float64 column: a number, or the missing value
float(v) == [nan |-> FALSE, val |-> v]
float_nan == [nan |-> TRUE, val |-> 0]

\* the numbers of one column of a list of rows, missing cells dropped
column_values(rows, c) == {rows[i][c].val : i \in {j \in DOMAIN rows : ~rows[j][c].nan}}

\* Series.min() / Series.max(): missing cells are skipped, and the result is
\* NaN when no cell is left
series_min(rows, c) ==
    IF column_values(rows, c) = {} THEN float_nan
    ELSE float(CHOOSE x \in column_values(rows, c) : \A y \in column_values(rows, c) : x <= y)

series_max(rows, c) ==
    IF column_values(rows, c) = {} THEN float_nan
    ELSE float(CHOOSE x \in column_values(rows, c) : \A y \in column_values(rows, c) : x >= y)

\* bounds: the box handed to m.fit_bounds, computed when features are joined
\* and the table has the four columns
bounds(columns, filtered, feats) ==
    IF Len(filtered) > 0 /\ feats # <<>> /\ BBOX_COLUMNS \subseteq columns
    THEN << <<series_min(filtered, "min_lat"), series_min(filtered, "min_lon")>>,
            <<series_max(filtered, "max_lat"), series_max(filtered, "max_lon")>> >>
    ELSE NO_BOUNDS

AppScript(df, features, raw, ms) ==
    LET sel == selected_regions(df, raw)
        avail == IF sel # {} THEN available_turfs(df, sel) ELSE {}
        turfs == selected_turfs(sel, ms)
        filtered == filtered_metrics(df, sel, turfs)
        colors == turf_colors_map(unique_turfs(filtered))
        feats == filtered_features(filtered, features)
    IN  [regions |-> regions(df),
         selected_regions |-> sel,
         available_turfs |-> avail,
         selected_turfs |-> turfs,
         filtered_metrics |-> filtered,
         total_precincts |-> total_precincts(filtered),
         total_voters |-> total_voters(df.columns, filtered),
         support_rate |-> support_rate(df.columns, filtered),
         turf_colors_map |-> colors,
         filtered_features |-> feats,
         bounds |-> bounds(df.columns, filtered, feats),
         fill |-> [i \in DOMAIN feats |-> fillColor(colors, feats[i])],
         turf_summary |-> turf_summary(df.columns, filtered)]

----------------------------------------------------------------------------
(* Input files *)

CsvRow(i, region, turf, v, s) ==
    [van_precinct_id |-> [num |-> i], van_precinct_name |-> "P" \o ToString(i),
     Current_Region |-> region, Current_Turf |-> turf,
     voters |-> v, supporters |-> s]

\* CSV files of up to NRows precincts with every region and turf assignment,
\* missing cells included
FilterCsvFiles ==
    UNION {{[columns |-> AllColumns,
             rows |-> [i \in 1..n |-> CsvRow(i, rt[i][1], rt[i][2], i, 1)]] :
                rt \in [1..n -> (Regions \cup {NaN}) \X (Turfs \cup {NaN})]} :
           n \in 0..NRows}

VoterCounts == {0, 2}
SupporterCounts == {0, 1}
ColumnSets == {AllColumns, AllColumns \ {"supporters"}, AllColumns \ {"voters", "supporters"}}

\* CSV files of 1..NRows precincts with varying counts, with and without
\* the optional columns
KpiCsvFiles ==
    UNION {{[columns |-> cols,
             rows |-> [i \in 1..n |-> CsvRow(i, c[i][1], c[i][2], c[i][3], c[i][4])]] :
                c \in [1..n -> Regions \X {"T1", NaN} \X VoterCounts \X SupporterCounts],
                cols \in ColumnSets} :
           n \in 1..NRows}

\* the feature of precinct i as the GeoJSON file has it: the id a number or
\* a string, the region and turf copies those of the CSV row
Feature(csv, i) ==
    [van_precinct_id |-> IF i % 2 = 1 THEN [num |-> i] ELSE [str |-> ToString(i)],
     van_precinct_name |-> "P" \o ToString(i),
     Current_Region |-> IF i \in DOMAIN csv.rows THEN csv.rows[i].Current_Region ELSE "R01",
     Current_Turf |-> IF i \in DOMAIN csv.rows THEN csv.rows[i].Current_Turf ELSE "T1"]

FeatureList(csv, present) ==
    LET ids == SelectSeq([i \in 1..(Len(csv.rows) + 1) |-> i], LAMBDA i : i \in present)
    IN  [k \in DOMAIN ids |-> Feature(csv, ids[k])]

\* GeoJSON files: a feature for any of the CSV's precincts and for one
\* precinct the CSV does not have, each id at most once
GeoJsonFiles(csv) == {FeatureList(csv, present) : present \in SUBSET (1..(Len(csv.rows) + 1))}

----------------------------------------------------------------------------
(* app.py: state machine *)

\* the turf multiselect of a run: its old value while it is rendered with
\* the options of the previous run, its default [] otherwise
turf_widget(prev, sel, avail, ms) ==
    IF sel # {} /\ prev.selected_regions # {} /\ avail = prev.available_turfs
    THEN ms ELSE {}

AppRun(raw, ms) ==
    /\ selected_regions_raw' = raw
    /\ turfs_ms' = ms
    /\ view' = AppScript(df_metrics, geojson_data, raw, ms)
    /\ UNCHANGED <<df_metrics, geojson_data, session_state, output_dir, df_upd, runs, hash_seed, cache_data>>

AppInitWith(csv, geo) ==
    /\ df_metrics = load_metrics(csv)
    /\ geojson_data = load_geojson(geo)
    /\ selected_regions_raw = {ALL_REGIONS}
    /\ turfs_ms = {}
    /\ view = AppScript(df_metrics, geojson_data, selected_regions_raw, turfs_ms)
    /\ session_state = <<>>
    /\ output_dir = <<>>
    /\ df_upd = <<>>
    /\ runs = 0
    /\ hash_seed = <<>>
    /\ cache_data = <<>>

AppInit == \E csv \in FilterCsvFiles : \E geo \in GeoJsonFiles(csv) : AppInitWith(csv, geo)

AppKpiInit ==
    \E csv \in KpiCsvFiles : AppInitWith(csv, FeatureList(csv, DOMAIN csv.rows))

\* the user changes the region multiselect
AppSelectRegions ==
    \E raw \in SUBSET regions_with_all(df_metrics) :
        /\ raw # selected_regions_raw
        /\ LET sel == selected_regions(df_metrics, raw)
               avail == IF sel # {} THEN available_turfs(df_metrics, sel) ELSE {}
           IN  AppRun(raw, turf_widget(view, sel, avail, turfs_ms))

\* the user changes the turf multiselect
AppSelectTurfs ==
    /\ view.selected_regions # {}
    /\ \E ms \in SUBSET view.available_turfs :
        /\ ms # turfs_ms
        /\ AppRun(selected_regions_raw, ms)

AppNext == AppSelectRegions \/ AppSelectTurfs

SpecApp == AppInit /\ [][AppNext]_vars

SpecAppKpi == AppKpiInit /\ [][AppNext]_vars

----------------------------------------------------------------------------
(* Properties of app.py *)

\* the reference filter predicate of a row for active regions R and turfs T
Passes(row, R, T) ==
    row.Current_Region \in R /\ (T = {} \/ row.Current_Turf \in T)

\* the rows of a list that are listed in a second one
Member(row, rows) == \E j \in DOMAIN rows : rows[j] = row

\* C1: the filtered rows are exactly the rows of the table whose region is
\* active and whose turf is active when any turf is; app.py's filter and the
\* aok variants' filter_df agree on it.
C1_FilterIff ==
    LET R == view.selected_regions
        T == view.selected_turfs
        out == filter_df(df_metrics, R, T)
    IN  /\ \A i \in DOMAIN df_metrics.rows :
            /\ Member(df_metrics.rows[i], view.filtered_metrics)
                    <=> Passes(df_metrics.rows[i], R, T)
            /\ Member(df_metrics.rows[i], out) <=> Passes(df_metrics.rows[i], R, T)
        /\ \A j \in DOMAIN view.filtered_metrics :
            Member(view.filtered_metrics[j], df_metrics.rows)
        /\ \A j \in DOMAIN out : Member(out[j], df_metrics.rows)

\* a turf filter is active; it keeps one row and drops another row of an
\* active region
C1_Witness ==
    /\ view.selected_turfs # {}
    /\ Len(view.filtered_metrics) > 0
    /\ \E i \in DOMAIN df_metrics.rows :
        /\ df_metrics.rows[i].Current_Region \in view.selected_regions
        /\ ~Member(df_metrics.rows[i], view.filtered_metrics)

\* C2: with neither a region nor the sentinel chosen, the active region set
\* is empty and the run shows nothing: no rows, no features.
C2_EmptySelectionShowsNothing ==
    /\ selected_regions_raw = {} => view.selected_regions = {}
    /\ view.selected_regions = {} =>
        /\ view.filtered_metrics = <<>>
        /\ view.total_precincts = 0
        /\ view.filtered_features = <<>>

\* the user has cleared the region choice of a table that has regions
C2_Witness ==
    /\ selected_regions_raw = {}
    /\ regions(df_metrics) # {}
    /\ Len(geojson_data) > 0

\* C3 as claimed: with the sentinel chosen and no turf chosen the filtered
\* rows are all the rows of the table, missing regions or not.
C3_AllRegionsReturnsEveryRow ==
    (ALL_REGIONS \in selected_regions_raw /\ view.selected_turfs = {}) =>
        /\ selected_ids(view.filtered_metrics) = selected_ids(df_metrics.rows)
        /\ Len(view.filtered_metrics) = Len(df_metrics.rows)

\* C8: a feature of the collection is rendered exactly when its id is an id
\* of the filtered rows; the rendered list is the collection's matching
\* features in the collection's order.
C8_JoinIff ==
    /\ \A k \in DOMAIN geojson_data :
        Member(geojson_data[k], view.filtered_features)
            <=> geojson_data[k].van_precinct_id \in selected_ids(view.filtered_metrics)
    /\ view.filtered_features =
        SelectSeq(geojson_data,
                  LAMBDA f : f.van_precinct_id \in selected_ids(view.filtered_metrics))

\* a render with a feature that has no row, a row that has no feature and a
\* feature that is joined
C8_Witness ==
    /\ view.selected_turfs # {}
    /\ Len(view.filtered_features) > 0
    /\ \E k \in DOMAIN geojson_data :
        geojson_data[k].van_precinct_id \notin selected_ids(df_metrics.rows)
    /\ \E j \in DOMAIN view.filtered_metrics :
        \A k \in DOMAIN geojson_data :
            geojson_data[k].van_precinct_id # view.filtered_metrics[j].van_precinct_id

\* the sum of the voters entries of a per-turf summary
RECURSIVE summary_voters(_)
summary_voters(summary) ==
    IF DOMAIN summary = {} THEN 0
    ELSE LET t == CHOOSE x \in DOMAIN summary : TRUE
         IN  summary[t].voters
             + summary_voters([u \in DOMAIN summary \ {t} |-> summary[u]])

\* C6 as claimed: for a non-empty filtered RowSet the voters of the per-turf
\* summary add up to the total-voters KPI.
C6_TurfSumsEqualTotal ==
    Len(view.filtered_metrics) > 0 =>
        summary_voters(view.turf_summary) = view.total_voters

----------------------------------------------------------------------------

(* old_apps/rodmap.py *)

\* round(3) of num/den (den > 0), in thousandths, a tie to the even one
round3(num, den) ==
    LET q == (1000 * num) \div den
        r == (1000 * num) % den
    IN  IF 2 * r > den \/ (2 * r = den /\ q % 2 = 1) THEN q + 1 ELSE q

\* (supporters / voters).fillna(0.0).round(3) of one row: the float division
\* gives NaN for 0/0, which fillna turns into 0.0, and inf for x/0
row_support_rate(row) ==
    IF row.voters = 0
    THEN IF row.supporters = 0 THEN [thousandths |-> 0] ELSE [inf |-> TRUE]
    ELSE [thousandths |-> round3(row.supporters, row.voters)]

\* load_metrics of rodmap.py: the id column as text and, when both count
\* columns exist, a support_rate column
rod_load_metrics(csv) ==
    LET df == load_metrics(csv)
    IN  IF {"supporters", "voters"} \subseteq df.columns
        THEN [columns |-> df.columns \cup {"support_rate"},
              rows |-> [i \in DOMAIN df.rows |->
                          [c \in DOMAIN df.rows[i] \cup {"support_rate"} |->
                              IF c = "support_rate"
                              THEN row_support_rate(df.rows[i])
                              ELSE df.rows[i][c]]]]
        ELSE df

\* region_name.replace("/", "_").replace(" ", "_"): the sample region names
\* hold neither character
safe(region_name) == region_name

\* load_geojson_region: the region's own file when output/regions has one,
\* the statewide collection otherwise
load_geojson_region(dir, all, region_name) ==
    IF safe(region_name) \in DOMAIN dir.regions
    THEN load_geojson(dir.regions[safe(region_name)])
    ELSE all

\* the features of the listed regions' collections, in order, whose id is
\* selected
RECURSIVE rod_collect(_, _, _, _)
rod_collect(region_list, ids, dir, all) ==
    IF region_list = <<>> THEN <<>>
    ELSE SelectSeq(load_geojson_region(dir, all, Head(region_list)),
                   LAMBDA f : f.van_precinct_id \in ids)
         \o rod_collect(Tail(region_list), ids, dir, all)

\* filtered_features of rodmap.py
rod_filtered_features(filtered, dir, all) ==
    IF Len(filtered) > 0
    THEN rod_collect(sorted({filtered[i].Current_Region : i \in DOMAIN filtered}),
                     selected_ids(filtered), dir, all)
    ELSE <<>>

\* active_regions: every region when no specific region is picked
rod_active_regions(df, raw) ==
    LET picked_specific == raw \ {ALL_REGIONS}
    IN  IF picked_specific = {} THEN regions(df) ELSE picked_specific

\* filtered: the rows of the selection
rod_filtered(df, active, turfs) ==
    LET byRegion == SelectSeq(df.rows, LAMBDA r : r.Current_Region \in active)
    IN  IF turfs # {}
        THEN SelectSeq(byRegion, LAMBDA r : r.Current_Turf \in turfs)
        ELSE byRegion

\* the features handed to the map layer and its Search control: after the
\* loop over filtered_features, p is the properties of the last feature,
\* and that feature gets the search_key "<name> <id>"
rod_search_features(feats) ==
    [i \in DOMAIN feats |->
        IF i = Len(feats)
        THEN [c \in DOMAIN feats[i] \cup {"search_key"} |->
                IF c = "search_key"
                THEN feats[i].van_precinct_name \o " " \o feats[i].van_precinct_id
                ELSE feats[i][c]]
        ELSE feats[i]]

\* one run of the script
RodScript(df, all, dir, raw, ms) ==
    LET active == rod_active_regions(df, raw)
        avail == IF active # {} THEN available_turfs(df, active) ELSE {}
        turfs == selected_turfs(active, ms)
        filtered == rod_filtered(df, active, turfs)
        feats == rod_filtered_features(filtered, dir, all)
        colors == turf_colors_map(
                    sorted({feats[i].Current_Turf : i \in DOMAIN feats}))
    IN  [regions |-> regions(df),
         statewide |-> raw \ {ALL_REGIONS} = {},
         selected_regions |-> active,
         available_turfs |-> avail,
         selected_turfs |-> turfs,
         filtered_metrics |-> filtered,
         total_precincts |-> Len(filtered),
         total_voters |-> IF "voters" \in df.columns
                          THEN Sum(voters_col(filtered)) ELSE NA,
         support_rate |-> support_rate(df.columns, filtered),
         turf_colors_map |-> colors,
         filtered_features |-> feats,
         search_features |-> rod_search_features(feats),
         fill |-> [i \in DOMAIN feats |-> fillColor(colors, feats[i])]]

\* CSV files of 1..NRows precincts in one or two regions, with counts that
\* include precincts without voters
RodCsvFiles ==
    UNION {{[columns |-> AllColumns,
             rows |-> [i \in 1..n |->
                         CsvRow(i, c[i][1], c[i][2], c[i][3][1], c[i][3][2])]] :
                c \in [1..n -> Regions \X Turfs \X {<<0, 0>>, <<0, 1>>, <<2, 1>>}]} :
           n \in 1..NRows}

\* output/regions: a file for each region of `have`, holding the features
\* of that region's precincts
RegionFiles(csv, have) ==
    [r \in have |->
        FeatureList(csv, {i \in DOMAIN csv.rows : csv.rows[i].Current_Region = r})]

RodRun(raw, ms) ==
    /\ selected_regions_raw' = raw
    /\ turfs_ms' = ms
    /\ view' = RodScript(df_metrics, geojson_data, output_dir, raw, ms)
    /\ UNCHANGED <<df_metrics, geojson_data, session_state, output_dir, df_upd, runs, hash_seed, cache_data>>

RodInit ==
    \E csv \in RodCsvFiles : \E have \in SUBSET Regions :
        /\ df_metrics = rod_load_metrics(csv)
        /\ geojson_data = load_geojson(FeatureList(csv, DOMAIN csv.rows))
        /\ output_dir = [regions |-> RegionFiles(csv, have)]
        /\ selected_regions_raw = {ALL_REGIONS}
        /\ turfs_ms = {}
        /\ session_state = <<>>
        /\ df_upd = <<>>
        /\ runs = 0
        /\ hash_seed = <<>>
        /\ cache_data = <<>>
        /\ view = RodScript(df_metrics, geojson_data, output_dir,
                             selected_regions_raw, turfs_ms)

\* the user changes the region multiselect
RodSelectRegions ==
    \E raw \in SUBSET regions_with_all(df_metrics) :
        /\ raw # selected_regions_raw
        /\ LET active == rod_active_regions(df_metrics, raw)
               avail == IF active # {} THEN available_turfs(df_metrics, active) ELSE {}
           IN  RodRun(raw, turf_widget(view, active, avail, turfs_ms))

\* the user changes the turf multiselect
RodSelectTurfs ==
    /\ view.selected_regions # {}
    /\ \E ms \in SUBSET view.available_turfs :
        /\ ms # turfs_ms
        /\ RodRun(selected_regions_raw, ms)

RodNext == RodSelectRegions \/ RodSelectTurfs

SpecRodmap == RodInit /\ [][RodNext]_vars

\* C7 as claimed: wherever a support rate is computed, zero voters give "not
\* applicable" (never 0, never a division by zero) and positive voters give
\* supporters/voters: the KPI and load_metrics' support_rate column.
C7_ZeroVotersIsNotApplicable ==
    /\ Sum(voters_col(view.filtered_metrics)) = 0 => view.support_rate = [text |-> NA]
    /\ Sum(voters_col(view.filtered_metrics)) > 0 =>
            view.support_rate =
                [tenths |-> pct1(Sum(supporters_col(view.filtered_metrics)),
                                 Sum(voters_col(view.filtered_metrics)))]
    /\ \A i \in DOMAIN df_metrics.rows :
        LET row == df_metrics.rows[i]
        IN  IF row.voters = 0
            THEN row.support_rate = [text |-> NA]
            ELSE row.support_rate = [thousandths |-> round3(row.supporters, row.voters)]

\* C9 as claimed: when no source collection repeats an id, no id occurs
\* twice among the joined features, for every selection.
C9_NoDuplicateFeatures ==
    \A i, j \in DOMAIN view.filtered_features :
        view.filtered_features[i].van_precinct_id
            = view.filtered_features[j].van_precinct_id => i = j

\* C27: every feature handed to the map's Search control has a search_key
\* made of its own precinct name and id.
C27_EveryFeatureHasSearchKey ==
    \A i \in DOMAIN view.search_features :
        /\ "search_key" \in DOMAIN view.search_features[i]
        /\ view.search_features[i].search_key =
              view.search_features[i].van_precinct_name \o " "
                  \o view.search_features[i].van_precinct_id

\* C24: in rodmap.py, when the region multiselect is empty (no region and no
\* sentinel), the filtered rows are empty and no feature is shown.
C24_RodmapEmptySelectionShowsNothing ==
    selected_regions_raw = {} =>
        /\ view.filtered_metrics = <<>>
        /\ view.filtered_features = <<>>

----------------------------------------------------------------------------
(* old_apps/pappy3.py: the script *)

\* an empty cell of the editor's Updated Region / Updated Turf columns
None == "None"

\* most rows of the editor with a staged value at one time
MaxStaged == 1

\* a variant that reads the cached load_metrics() result
pappy_working_copy_cached(ss, loaded) == loaded

\* df_metrics of a run: a copy of the session's master_df
pappy_working_copy(ss, loaded) == ss.master_df

\* one feature with the region and turf of the first table row of its id
pappy_update_feature(df, f) ==
    LET current_data == SelectSeq(df.rows,
                                  LAMBDA r : r.van_precinct_id = f.van_precinct_id)
    IN  IF current_data # <<>>
        THEN [f EXCEPT !.Current_Region = current_data[1].Current_Region,
                       !.Current_Turf = current_data[1].Current_Turf]
        ELSE f

\* a variant that leaves the loaded features as they are
pappy_update_geojson_skipped(df, features) == features

\* "Update GeoJSON with current assignments from master_df"
pappy_update_geojson(df, features) ==
    [i \in DOMAIN features |-> pappy_update_feature(df, features[i])]

\* regions: the distinct regions of the working copy
pappy_regions(df) == {df.rows[i].Current_Region : i \in DOMAIN df.rows}

pappy_regions_with_all(df) == {ALL_REGIONS} \cup pappy_regions(df)

pappy_selected_regions(df, raw) ==
    IF ALL_REGIONS \in raw THEN pappy_regions(df) ELSE raw \ {ALL_REGIONS}

pappy_available_turfs(df, sel) ==
    LET rows == SelectSeq(df.rows, LAMBDA r : r.Current_Region \in sel)
    IN  {rows[i].Current_Turf : i \in DOMAIN rows}

pappy_filtered_metrics(df, sel, turfs) ==
    IF sel # {}
    THEN LET byRegion == SelectSeq(df.rows, LAMBDA r : r.Current_Region \in sel)
         IN  IF turfs # {}
             THEN SelectSeq(byRegion, LAMBDA r : r.Current_Turf \in turfs)
             ELSE byRegion
    ELSE <<>>

pappy_filtered_features(filtered, features) ==
    IF Len(filtered) > 0
    THEN SelectSeq(features, LAMBDA f : f.van_precinct_id \in selected_ids(filtered))
    ELSE <<>>

\* turf_colors_map: {} unless features are joined, then the i-th (from 0) of
\* the joined features' sorted distinct turfs gets colors[i % len(colors)]
pappy_turf_colors_map(feats) ==
    IF feats # <<>>
    THEN LET pappy_unique_turfs == sorted({feats[i].Current_Turf : i \in DOMAIN feats})
         IN  [t \in Range(pappy_unique_turfs) |->
                LET i == CHOOSE k \in DOMAIN pappy_unique_turfs : pappy_unique_turfs[k] = t
                IN  palette[((i - 1) % Len(palette)) + 1]]
    ELSE <<>>

\* a variant that groups the rows by region
pappy_turf_summary_by_region(filtered) ==
    IF Len(filtered) > 0
    THEN LET present == {filtered[i].Current_Region : i \in DOMAIN filtered}
         IN  [t \in present |->
                LET g == SelectSeq(filtered, LAMBDA r : r.Current_Region = t)
                IN  [voters |-> Sum(voters_col(g)),
                     supporters |-> Sum(supporters_col(g)),
                     precinct_count |-> Len(g)]]
    ELSE <<>>

\* turf_summary: voters, supporters and precinct count of the filtered rows
\* of each turf
pappy_turf_summary(filtered) ==
    IF Len(filtered) > 0
    THEN LET present == {filtered[i].Current_Turf : i \in DOMAIN filtered}
         IN  [t \in present |->
                LET g == turf_group(filtered, t)
                IN  [voters |-> Sum(voters_col(g)),
                     supporters |-> Sum(supporters_col(g)),
                     precinct_count |-> Len(g)]]
    ELSE <<>>

\* sort_values(['Current Turf', 'van_precinct_name'])
RowBefore(a, b) ==
    \/ Rank(a.Current_Turf) < Rank(b.Current_Turf)
    \/ /\ a.Current_Turf = b.Current_Turf
       /\ Rank(a.van_precinct_name) <= Rank(b.van_precinct_name)

RECURSIVE sort_values(_)
sort_values(rows) ==
    IF rows = <<>> THEN <<>>
    ELSE LET k == CHOOSE i \in DOMAIN rows : \A j \in DOMAIN rows : RowBefore(rows[i], rows[j])
         IN  <<rows[k]>> \o sort_values(SubSeq(rows, 1, k - 1) \o SubSeq(rows, k + 1, Len(rows)))

\* edit_df: the filtered rows in editor order (the Updated columns are the
\* editor's state)
pappy_edit_df(filtered) == IF Len(filtered) > 0 THEN sort_values(filtered) ELSE <<>>

\* the editor's Updated columns with nothing staged
blank_edits(edit_df) ==
    [k \in DOMAIN edit_df |-> [Updated_Region |-> None, Updated_Turf |-> None]]

\* a variant that also offers a turf name no row has
pappy_all_turfs_and_new(master) ==
    {master.rows[i].Current_Turf : i \in DOMAIN master.rows} \cup {WideTurfs[1]}

\* the options of the editor's two select columns
pappy_all_regions(master) == {master.rows[i].Current_Region : i \in DOMAIN master.rows}
pappy_all_turfs(master) == {master.rows[i].Current_Turf : i \in DOMAIN master.rows}

\* a variant that flags every row
pappy_export_df_flags_all(ss) ==
    [i \in DOMAIN ss.master_df.rows |->
        [c \in DOMAIN ss.master_df.rows[i] \cup {"Changed"} |->
            IF c = "Changed" THEN TRUE ELSE ss.master_df.rows[i][c]]]

\* export_df of "Download Updated CSV": every row of master_df with the
\* column Changed = van_precinct_id.isin(changed_precincts)
pappy_export_df(ss) ==
    [i \in DOMAIN ss.master_df.rows |->
        [c \in DOMAIN ss.master_df.rows[i] \cup {"Changed"} |->
            IF c = "Changed"
            THEN ss.master_df.rows[i].van_precinct_id \in ss.changed_precincts
            ELSE ss.master_df.rows[i][c]]]

\* what a run offers for download when "Download Updated CSV" is not pressed
NO_EXPORT == <<>>

\* one run of the script; msg is what the run's button handler reported
PappyScript(ss, loaded, features, raw, ms, msg) ==
    LET df == pappy_working_copy(ss, loaded)
        geo == pappy_update_geojson(df, features)
        sel == pappy_selected_regions(df, raw)
        avail == IF sel # {} THEN pappy_available_turfs(df, sel) ELSE {}
        turfs == selected_turfs(sel, ms)
        filtered == pappy_filtered_metrics(df, sel, turfs)
        feats == pappy_filtered_features(filtered, geo)
        colors == pappy_turf_colors_map(feats)
    IN  [regions |-> pappy_regions(df),
         selected_regions |-> sel,
         available_turfs |-> avail,
         selected_turfs |-> turfs,
         filtered_metrics |-> filtered,
         total_precincts |-> Len(filtered),
         total_voters |-> Sum(voters_col(filtered)),
         total_supporters |-> Sum(supporters_col(filtered)),
         modified_precincts |-> Cardinality(ss.changed_precincts),
         geojson |-> geo,
         turf_colors_map |-> colors,
         filtered_features |-> feats,
         fill |-> [i \in DOMAIN feats |-> fillColor(colors, feats[i])],
         turf_summary |-> pappy_turf_summary(filtered),
         edit_df |-> pappy_edit_df(filtered),
         all_regions |-> pappy_all_regions(ss.master_df),
         all_turfs |-> pappy_all_turfs(ss.master_df),
         export_df |-> NO_EXPORT,
         message |-> msg]

----------------------------------------------------------------------------
(* old_apps/pappy3.py: state machine *)

MSG_APPLIED == "Changes applied! Map will update automatically."
MSG_NOTHING_TO_APPLY == "No changes to apply. Select new regions or turfs first."
MSG_RESET == "All changes reset!"
MSG_NOTHING_TO_RESET == "No changes to reset."
NO_MESSAGE == ""

\* pd.notna of either Updated cell of an editor row
is_staged(e) == e.Updated_Region # None \/ e.Updated_Turf # None

\* a variant that never writes the region
pappy_apply_row_turf_only(master, precinct_id, e) ==
    [master EXCEPT !.rows =
        [i \in DOMAIN master.rows |->
            IF master.rows[i].van_precinct_id = precinct_id
            THEN [master.rows[i] EXCEPT
                    !.Current_Turf = IF e.Updated_Turf # None
                                     THEN e.Updated_Turf ELSE @]
            ELSE master.rows[i]]]

\* a variant without the mask: every row takes the staged values
pappy_apply_row_unmasked(master, precinct_id, e) ==
    [master EXCEPT !.rows =
        [i \in DOMAIN master.rows |->
            [master.rows[i] EXCEPT
                !.Current_Region = IF e.Updated_Region # None
                                   THEN e.Updated_Region ELSE @,
                !.Current_Turf = IF e.Updated_Turf # None
                                 THEN e.Updated_Turf ELSE @]]]

\* the body of the Apply loop for one editor row: overwrite the staged
\* fields of the master rows with the row's id
pappy_apply_row(master, precinct_id, e) ==
    [master EXCEPT !.rows =
        [i \in DOMAIN master.rows |->
            IF master.rows[i].van_precinct_id = precinct_id
            THEN [master.rows[i] EXCEPT
                    !.Current_Region = IF e.Updated_Region # None
                                       THEN e.Updated_Region ELSE @,
                    !.Current_Turf = IF e.Updated_Turf # None
                                     THEN e.Updated_Turf ELSE @]
            ELSE master.rows[i]]]

\* a variant that writes the staged fields and clears the row's counts
pappy_apply_rows_clearing_counts(master, edit_df, edits, k) ==
    [master EXCEPT !.rows =
        [i \in DOMAIN master.rows |->
            IF \E j \in DOMAIN edit_df :
                  /\ is_staged(edits[j])
                  /\ edit_df[j].van_precinct_id = master.rows[i].van_precinct_id
            THEN [master.rows[i] EXCEPT !.voters = 0, !.supporters = 0]
            ELSE master.rows[i]]]

\* the Apply loop over the editor rows k..Len(edit_df)
RECURSIVE pappy_apply_rows(_, _, _, _)
pappy_apply_rows(master, edit_df, edits, k) ==
    IF k > Len(edit_df) THEN master
    ELSE pappy_apply_rows(
            IF is_staged(edits[k])
            THEN pappy_apply_row(master, edit_df[k].van_precinct_id, edits[k])
            ELSE master,
            edit_df, edits, k + 1)

\* a variant that tracks only the precincts with a staged region
pappy_apply_changed_regions_only(edit_df, edits) ==
    {edit_df[k].van_precinct_id :
        k \in {j \in DOMAIN edit_df : edits[j].Updated_Region # None}}

\* the ids the Apply loop adds to changed_precincts
pappy_apply_changed(edit_df, edits) ==
    {edit_df[k].van_precinct_id : k \in {j \in DOMAIN edit_df : is_staged(edits[j])}}

\* updates_made of the Apply handler
updates_made(edits) == \E k \in DOMAIN edits : is_staged(edits[k])

\* a variant whose changed-set holds only the ids of the last Apply
pappy_apply_forgets(ss, edit_df, edits) ==
    [ss EXCEPT !.master_df = pappy_apply_rows(@, edit_df, edits, 1),
               !.changed_precincts = pappy_apply_changed(edit_df, edits)]

\* the session state after the Apply loop
pappy_apply(ss, edit_df, edits) ==
    [ss EXCEPT !.master_df = pappy_apply_rows(@, edit_df, edits, 1),
               !.changed_precincts = @ \cup pappy_apply_changed(edit_df, edits)]

\* a variant that clears the changed-set and keeps the working copy
pappy_reset_keeps_edits(ss, loaded) == [ss EXCEPT !.changed_precincts = {}]

\* the session state after Reset found changed precincts: the table as
\* load_metrics() returns it, and no changed precinct
pappy_reset(ss, loaded) == [ss EXCEPT !.master_df = loaded, !.changed_precincts = {}]

\* a variant of the editor that writes a cell through to the working copy
pappy_stage_writes_through(ss, edit_df, k, e) ==
    [ss EXCEPT !.precinct_editor[k] = e,
               !.master_df = pappy_apply_row(@, edit_df[k].van_precinct_id, e)]

\* the session state after the user set the Updated cells of editor row k
\* to e: only the editor's own state changes
pappy_stage(ss, edit_df, k, e) == [ss EXCEPT !.precinct_editor[k] = e]

\* a run of the script after the session state became ss, with the region
\* and turf choices raw and ms: each widget keeps its value only while it
\* is rendered with the arguments of the previous run, whose results are
\* prev
pappy_rerun(prev, ss, loaded, features, raw, ms, msg) ==
    LET raw1 == IF pappy_regions_with_all(ss.master_df) = {ALL_REGIONS} \cup prev.regions
                THEN raw ELSE {}
        sel == pappy_selected_regions(ss.master_df, raw1)
        avail == IF sel # {} THEN pappy_available_turfs(ss.master_df, sel) ELSE {}
        ms1 == turf_widget(prev, sel, avail, ms)
        edit_df == pappy_edit_df(pappy_filtered_metrics(ss.master_df, sel,
                                                        selected_turfs(sel, ms1)))
        edits == IF /\ edit_df # <<>>
                    /\ edit_df = prev.edit_df
                    /\ pappy_all_regions(ss.master_df) = prev.all_regions
                    /\ pappy_all_turfs(ss.master_df) = prev.all_turfs
                 THEN ss.precinct_editor
                 ELSE blank_edits(edit_df)
        ss1 == [ss EXCEPT !.precinct_editor = edits]
    IN  [selected_regions_raw |-> raw1,
         turfs_ms |-> ms1,
         session_state |-> ss1,
         view |-> PappyScript(ss1, loaded, features, raw1, ms1, msg)]

PappyRun(ss, raw, ms, msg) ==
    LET run == pappy_rerun(view, ss, df_metrics, geojson_data, raw, ms, msg)
    IN  /\ selected_regions_raw' = run.selected_regions_raw
        /\ turfs_ms' = run.turfs_ms
        /\ session_state' = run.session_state
        /\ view' = run.view
        /\ UNCHANGED <<df_metrics, geojson_data, output_dir, df_upd, runs, hash_seed, cache_data>>

\* the tables the sessions start from: precinct P1 in R01/T1 and precinct
\* P2 with every assignment of the sample regions and turfs
PappyCsvFiles ==
    {[columns |-> AllColumns,
      rows |-> <<CsvRow(1, "R01", "T1", 1, 1), CsvRow(2, rt[1], rt[2], 2, 1)>>] :
        rt \in Regions \X Turfs}

\* the first run of a session on the files csv and geo
PappyInitWith(csv, geo) ==
    /\ df_metrics = load_metrics(csv)
    /\ geojson_data = load_geojson(geo)
    /\ selected_regions_raw = {}
    /\ turfs_ms = {}
    /\ session_state = [master_df |-> df_metrics,
                        changed_precincts |-> {},
                        precinct_editor |-> <<>>]
    /\ output_dir = <<>>
    /\ df_upd = <<>>
    /\ runs = 0
    /\ hash_seed = <<>>
    /\ cache_data = <<>>
    /\ view = PappyScript(session_state, df_metrics, geojson_data, {}, {}, NO_MESSAGE)

PappyInit ==
    \E csv \in PappyCsvFiles : \E present \in {{1, 2, 3}, {2, 3}} :
        PappyInitWith(csv, FeatureList(csv, present))

\* the user changes the region multiselect
PappySelectRegions ==
    \E raw \in SUBSET pappy_regions_with_all(session_state.master_df) :
        /\ raw # selected_regions_raw
        /\ PappyRun(session_state, raw, turfs_ms, NO_MESSAGE)

\* the user changes the turf multiselect
PappySelectTurfs ==
    /\ view.selected_regions # {}
    /\ \E ms \in SUBSET view.available_turfs :
        /\ ms # turfs_ms
        /\ PappyRun(session_state, selected_regions_raw, ms, NO_MESSAGE)

\* the user sets or clears one Updated cell of the editor
PappyStage ==
    /\ view.edit_df # <<>>
    /\ \E k \in DOMAIN view.edit_df :
       \E e \in [Updated_Region : view.all_regions \cup {None},
                  Updated_Turf : view.all_turfs \cup {None}] :
        LET edits == [session_state.precinct_editor EXCEPT ![k] = e]
        IN  /\ \/ e.Updated_Region = session_state.precinct_editor[k].Updated_Region
               \/ e.Updated_Turf = session_state.precinct_editor[k].Updated_Turf
            /\ edits # session_state.precinct_editor
            /\ Cardinality({j \in DOMAIN edits : is_staged(edits[j])}) <= MaxStaged
            /\ PappyRun(pappy_stage(session_state, view.edit_df, k, e),
                        selected_regions_raw, turfs_ms, NO_MESSAGE)

\* the user presses "Apply Changes"
PappyApply ==
    /\ view.edit_df # <<>>
    /\ LET edits == session_state.precinct_editor
       IN  IF updates_made(edits)
           THEN PappyRun(pappy_apply(session_state, view.edit_df, edits),
                         selected_regions_raw, turfs_ms, MSG_APPLIED)
           ELSE PappyRun(session_state, selected_regions_raw, turfs_ms,
                         MSG_NOTHING_TO_APPLY)

\* the user presses "Reset All Changes"
PappyReset ==
    /\ view.edit_df # <<>>
    /\ IF session_state.changed_precincts # {}
       THEN PappyRun(pappy_reset(session_state, df_metrics),
                     selected_regions_raw, turfs_ms, MSG_RESET)
       ELSE PappyRun(session_state, selected_regions_raw, turfs_ms,
                     MSG_NOTHING_TO_RESET)

\* the user presses "Download Updated CSV": the run offers export_df
PappyDownload ==
    LET run == pappy_rerun(view, session_state, df_metrics, geojson_data,
                           selected_regions_raw, turfs_ms, NO_MESSAGE)
    IN  /\ selected_regions_raw' = run.selected_regions_raw
        /\ turfs_ms' = run.turfs_ms
        /\ session_state' = run.session_state
        /\ view' = [run.view EXCEPT !.export_df = pappy_export_df(run.session_state)]
        /\ UNCHANGED <<df_metrics, geojson_data, output_dir, df_upd, runs, hash_seed, cache_data>>

PappyNext ==
    \/ PappySelectRegions
    \/ PappySelectTurfs
    \/ PappyStage
    \/ PappyApply
    \/ PappyReset

SpecPappy == PappyInit /\ [][PappyNext]_vars

\* C4: in every run the region list is the working copy's distinct regions
\* at that run, and the sentinel expands to exactly that set.
C4_SentinelExpandsToCurrentRegions ==
    /\ view.regions = RegionsOf(session_state.master_df.rows)
    /\ ALL_REGIONS \in selected_regions_raw =>
            view.selected_regions = RegionsOf(session_state.master_df.rows)

\* the sentinel is chosen after an applied edit changed the set of regions
C4_Witness ==
    /\ ALL_REGIONS \in selected_regions_raw
    /\ session_state.changed_precincts # {}
    /\ RegionsOf(session_state.master_df.rows) # RegionsOf(df_metrics.rows)

\* The rows of a table that carry the precinct id.
rows_of(master, id) == {i \in DOMAIN master.rows : master.rows[i].van_precinct_id = id}

\* The step is a press of Apply that found something staged.
AppliedStep == view'.message = MSG_APPLIED

\* C11: when Apply runs with only a new region R staged for a precinct shown
\* in the editor, the working copy's row of that precinct gets region R and
\* keeps its turf, and the precinct is in the changed-set; likewise with
\* only a new turf staged.
C11_ApplyWritesStagedField ==
    [][AppliedStep =>
        \A k \in DOMAIN view.edit_df :
            LET e == session_state.precinct_editor[k]
                id == view.edit_df[k].van_precinct_id
                before == session_state.master_df.rows
                after == session_state'.master_df.rows
            IN  /\ (e.Updated_Region # None /\ e.Updated_Turf = None) =>
                      /\ rows_of(session_state.master_df, id) # {}
                      /\ \A i \in rows_of(session_state.master_df, id) :
                            /\ after[i].Current_Region = e.Updated_Region
                            /\ after[i].Current_Turf = before[i].Current_Turf
                      /\ id \in session_state'.changed_precincts
                /\ (e.Updated_Turf # None /\ e.Updated_Region = None) =>
                      /\ rows_of(session_state.master_df, id) # {}
                      /\ \A i \in rows_of(session_state.master_df, id) :
                            /\ after[i].Current_Turf = e.Updated_Turf
                            /\ after[i].Current_Region = before[i].Current_Region
                      /\ id \in session_state'.changed_precincts]_vars

\* An applied edit moved a precinct to another region and left its turf.
C11_Witness ==
    /\ view.message = MSG_APPLIED
    /\ \E i \in DOMAIN df_metrics.rows :
        /\ df_metrics.rows[i].van_precinct_id \in session_state.changed_precincts
        /\ session_state.master_df.rows[i].Current_Region # df_metrics.rows[i].Current_Region
        /\ session_state.master_df.rows[i].Current_Turf = df_metrics.rows[i].Current_Turf

\* The step is a press of Apply.
ApplyStep == view'.message \in {MSG_APPLIED, MSG_NOTHING_TO_APPLY}

\* The ids of the editor rows with a staged field.
staged_ids == {view.edit_df[k].van_precinct_id :
                  k \in {j \in DOMAIN view.edit_df :
                            is_staged(session_state.precinct_editor[j])}}

\* C12: Apply reports "no changes to apply" exactly when no editor row has a
\* staged field, and then the working copy and the changed-set stay as they
\* are; an Apply never modifies the row of a precinct without a staged
\* field and never adds such a precinct to the changed-set.
C12_ApplyReportsAndFrames ==
    [][ApplyStep =>
        /\ (view'.message = MSG_NOTHING_TO_APPLY) <=> (staged_ids = {})
        /\ staged_ids = {} =>
              /\ session_state'.master_df = session_state.master_df
              /\ session_state'.changed_precincts = session_state.changed_precincts
        /\ \A i \in DOMAIN session_state.master_df.rows :
              session_state.master_df.rows[i].van_precinct_id \notin staged_ids =>
                  session_state'.master_df.rows[i] = session_state.master_df.rows[i]
        /\ session_state'.changed_precincts \ session_state.changed_precincts
              \subseteq staged_ids]_vars

\* Apply was pressed with nothing staged after an earlier Apply had changed
\* one precinct and left another alone.
C12_Witness ==
    /\ view.message = MSG_NOTHING_TO_APPLY
    /\ session_state.changed_precincts # {}
    /\ \E i \in DOMAIN df_metrics.rows :
        df_metrics.rows[i].van_precinct_id \notin session_state.changed_precincts

\* C13: a Reset that finds changed precincts leaves the working copy equal,
\* row for row, to the loaded dataset and the changed-set empty; a Reset
\* that finds none says "no changes to reset" and changes nothing.
C13_ResetRestoresLoadedDataset ==
    [][/\ view'.message = MSG_RESET =>
            /\ session_state.changed_precincts # {}
            /\ session_state'.master_df = df_metrics
            /\ session_state'.changed_precincts = {}
       /\ view'.message = MSG_NOTHING_TO_RESET =>
            /\ session_state.changed_precincts = {}
            /\ session_state'.master_df = session_state.master_df
            /\ session_state'.changed_precincts = {}
            /\ view'.filtered_metrics = view.filtered_metrics]_vars

\* Reset has just undone applied edits that had changed the working copy
\* (the editor lists the loaded rows again).
C13_Witness ==
    /\ view.message = MSG_RESET
    /\ session_state.master_df = df_metrics
    /\ view.edit_df # <<>>

\* The step only changes cells of the editor.
StageStep ==
    /\ session_state'.precinct_editor # session_state.precinct_editor
    /\ view'.message = NO_MESSAGE
    /\ selected_regions_raw' = selected_regions_raw
    /\ turfs_ms' = turfs_ms

\* C14: editing Updated Region / Updated Turf cells without pressing Apply
\* leaves the working copy, the changed-set, the filtered rows and the
\* aggregates as they are.
C14_StagingChangesNoData ==
    [][StageStep =>
        /\ session_state'.master_df = session_state.master_df
        /\ session_state'.changed_precincts = session_state.changed_precincts
        /\ view'.filtered_metrics = view.filtered_metrics
        /\ view'.total_precincts = view.total_precincts
        /\ view'.total_voters = view.total_voters
        /\ view'.total_supporters = view.total_supporters
        /\ view'.turf_summary = view.turf_summary
        /\ view'.filtered_features = view.filtered_features]_vars

\* A value that differs from the current one is staged and not applied.
C14_Witness ==
    /\ view.message = NO_MESSAGE
    /\ \E k \in DOMAIN view.edit_df :
        /\ k \in DOMAIN session_state.precinct_editor
        /\ session_state.precinct_editor[k].Updated_Region
              \notin {None, view.edit_df[k].Current_Region}

\* C15: the changed-set is empty at the start of a session, and a step
\* either keeps every id in it or is a Reset that empties it.
C15_ChangedSetGrowsUntilReset ==
    /\ session_state.changed_precincts = {}
    /\ [][\/ session_state.changed_precincts \subseteq session_state'.changed_precincts
          \/ /\ view'.message = MSG_RESET
             /\ session_state'.changed_precincts = {}]_vars

\* Two Applies have each added a precinct.
C15_Witness == Cardinality(session_state.changed_precincts) >= 2


\* The region or the turf of row i of the working copy is not the loaded one.
differs_from_loaded(i) ==
    \/ session_state.master_df.rows[i].Current_Region # df_metrics.rows[i].Current_Region
    \/ session_state.master_df.rows[i].Current_Turf # df_metrics.rows[i].Current_Turf

\* C28: in every reachable state every precinct whose region or turf in the
\* working copy differs from the loaded value is in the changed-set, and an
\* empty changed-set means the working copy is the loaded dataset.
C28_DifferingPrecinctsAreInChangedSet ==
    /\ DOMAIN session_state.master_df.rows = DOMAIN df_metrics.rows
    /\ \A i \in DOMAIN session_state.master_df.rows :
          differs_from_loaded(i) =>
              session_state.master_df.rows[i].van_precinct_id
                  \in session_state.changed_precincts
    /\ session_state.changed_precincts = {} => session_state.master_df = df_metrics

\* Applied edits have moved one precinct to another turf and then another
\* precinct to another region.
C28_Witness ==
    \E i, j \in DOMAIN df_metrics.rows :
        /\ i # j
        /\ session_state.master_df.rows[i].Current_Turf # df_metrics.rows[i].Current_Turf
        /\ session_state.master_df.rows[i].Current_Region = df_metrics.rows[i].Current_Region
        /\ session_state.master_df.rows[j].Current_Region # df_metrics.rows[j].Current_Region

\* The region names and the turf names of the loaded dataset.
loaded_regions == {df_metrics.rows[i].Current_Region : i \in DOMAIN df_metrics.rows}
loaded_turfs == {df_metrics.rows[i].Current_Turf : i \in DOMAIN df_metrics.rows}

\* C29: in every reachable state the regions of the working copy are
\* regions of the loaded dataset, and its turfs are turfs of the loaded
\* dataset; the editor offers no other name.
C29_NoNewRegionOrTurfName ==
    /\ \A i \in DOMAIN session_state.master_df.rows :
          /\ session_state.master_df.rows[i].Current_Region \in loaded_regions
          /\ session_state.master_df.rows[i].Current_Turf \in loaded_turfs
    /\ view.all_regions \subseteq loaded_regions
    /\ view.all_turfs \subseteq loaded_turfs

\* An applied edit has removed a turf name from the working copy, so the
\* editor offers fewer turfs than the loaded dataset has.
C29_Witness ==
    /\ session_state.changed_precincts # {}
    /\ view.edit_df # <<>>
    /\ view.all_turfs # loaded_turfs
    /\ view.all_turfs \subseteq loaded_turfs

\* The columns an Apply may write.
assignment_columns == {"Current_Region", "Current_Turf"}

\* C30: an Apply leaves every row outside the current filtered rows as it
\* is, and in every row every value other than the region and the turf; the
\* working copy keeps the ids and the total voters of the loaded dataset
\* over every sequence of applies and resets.
C30_ApplyFrame ==
    /\ session_state.master_df = df_metrics
    /\ [][/\ ApplyStep =>
                \A i \in DOMAIN session_state.master_df.rows :
                    /\ session_state.master_df.rows[i].van_precinct_id
                          \notin selected_ids(view.filtered_metrics) =>
                            session_state'.master_df.rows[i] = session_state.master_df.rows[i]
                    /\ session_state.master_df.rows[i].van_precinct_id \notin staged_ids =>
                            session_state'.master_df.rows[i] = session_state.master_df.rows[i]
                    /\ \A c \in DOMAIN session_state.master_df.rows[i] \ assignment_columns :
                            session_state'.master_df.rows[i][c]
                                = session_state.master_df.rows[i][c]
          /\ selected_ids(session_state'.master_df.rows) = selected_ids(df_metrics.rows)
          /\ Sum(voters_col(session_state'.master_df.rows)) = Sum(voters_col(df_metrics.rows))
         ]_vars

\* An Apply has changed a shown precinct while the filter hid another one.
C30_Witness ==
    /\ view.message = MSG_APPLIED
    /\ session_state.master_df # df_metrics
    /\ \E i \in DOMAIN session_state.master_df.rows :
          /\ session_state.master_df.rows[i].van_precinct_id
                \notin selected_ids(view.filtered_metrics)
          /\ session_state.master_df.rows[i].van_precinct_id
                \notin session_state.changed_precincts

\* pappy3.py with the download button: the tables whose two precincts are in
\* different regions and turfs, every precinct with a feature.
PappyExportCsvFiles ==
    {csv \in PappyCsvFiles : /\ csv.rows[1].Current_Region # csv.rows[2].Current_Region
                             /\ csv.rows[1].Current_Turf # csv.rows[2].Current_Turf}

PappyExportInit ==
    \E csv \in PappyExportCsvFiles : PappyInitWith(csv, FeatureList(csv, DOMAIN csv.rows))

PappyExportNext == PappyNext \/ PappyDownload

SpecPappyExport == PappyExportInit /\ [][PappyExportNext]_vars

\* The rows of the loaded table with the id of row r have its region and turf.
as_loaded(r) ==
    \A i \in rows_of(df_metrics, r.van_precinct_id) :
        /\ df_metrics.rows[i].Current_Region = r.Current_Region
        /\ df_metrics.rows[i].Current_Turf = r.Current_Turf

\* The export lists the rows of the working copy, whatever the filter is.
export_lists_working_copy ==
    /\ DOMAIN view.export_df = DOMAIN session_state.master_df.rows
    /\ \A i \in DOMAIN view.export_df :
          \A c \in DOMAIN session_state.master_df.rows[i] :
              view.export_df[i][c] = session_state.master_df.rows[i][c]

\* C21 as stated: the updated-CSV export lists every precinct of the working
\* copy whatever the filter is, and a row's Changed flag is true only if the
\* precinct's region or turf differs from the loaded value.
C21_ChangedOnlyIfDiffers ==
    view.export_df # NO_EXPORT =>
        /\ export_lists_working_copy
        /\ \A i \in DOMAIN view.export_df :
              view.export_df[i].Changed => ~as_loaded(view.export_df[i])

\* C21 amended: the export lists every precinct of the working copy whatever
\* the filter is, a row's Changed flag is true exactly when the precinct is
\* in the changed-set (an Apply since the last Reset found a staged value
\* for it), and every row that differs from the loaded value is flagged.
C21_ChangedIffInChangedSet ==
    view.export_df # NO_EXPORT =>
        /\ export_lists_working_copy
        /\ \A i \in DOMAIN view.export_df :
              /\ view.export_df[i].Changed <=>
                    view.export_df[i].van_precinct_id \in session_state.changed_precincts
              /\ ~as_loaded(view.export_df[i]) => view.export_df[i].Changed

\* An export taken under a filter that hides a precinct flags one row and
\* not another, and the flagged row has its loaded region and turf.
C21_Witness ==
    /\ view.export_df # NO_EXPORT
    /\ Len(view.filtered_metrics) < Len(view.export_df)
    /\ \E i, j \in DOMAIN view.export_df :
        /\ view.export_df[i].Changed
        /\ as_loaded(view.export_df[i])
        /\ ~view.export_df[j].Changed

\* pappy3.py on the table of the worked example: P1 in region R01 and turf T1
\* with 100 voters, P2 in R01 and T2 with 50, P3 in R02 and turf W01 with 25.
ScenarioCsvFile ==
    [columns |-> AllColumns,
     rows |-> <<CsvRow(1, RegionNames[1], TurfNames[1], 100, 1),
                CsvRow(2, RegionNames[1], TurfNames[2], 50, 1),
                CsvRow(3, RegionNames[2], WideTurfs[1], 25, 1)>>]

PappyScenarioInit ==
    PappyInitWith(ScenarioCsvFile, FeatureList(ScenarioCsvFile, DOMAIN ScenarioCsvFile.rows))

\* the user sets or clears one Updated Turf cell of the editor
PappyStageTurf ==
    /\ view.edit_df # <<>>
    /\ \E k \in DOMAIN view.edit_df :
       \E e \in [Updated_Region : {None}, Updated_Turf : view.all_turfs \cup {None}] :
        LET edits == [session_state.precinct_editor EXCEPT ![k] = e]
        IN  /\ edits # session_state.precinct_editor
            /\ Cardinality({j \in DOMAIN edits : is_staged(edits[j])}) <= MaxStaged
            /\ PappyRun(pappy_stage(session_state, view.edit_df, k, e),
                        selected_regions_raw, turfs_ms, NO_MESSAGE)

\* the example's user reassigns turfs only
PappyScenarioNext ==
    \/ PappySelectRegions
    \/ PappySelectTurfs
    \/ PappyStageTurf
    \/ PappyApply
    \/ PappyReset

SpecPappyScenario == PappyScenarioInit /\ [][PappyScenarioNext]_vars

\* The precinct with the id is among the rows.
shown(rows, id) == \E i \in DOMAIN rows : rows[i].van_precinct_id = id

\* The step applies turf T1 staged for P3, and nothing else, to the loaded table.
ScenarioApplyStep ==
    /\ AppliedStep
    /\ session_state.master_df = df_metrics
    /\ staged_ids = {"3"}
    /\ \A k \in DOMAIN view.edit_df :
          view.edit_df[k].van_precinct_id = "3" =>
              session_state.precinct_editor[k] =
                  [Updated_Region |-> None, Updated_Turf |-> TurfNames[1]]

\* C22: on the example table, staging turf T1 for P3 and applying makes the
\* next per-turf summary, when the selection shows P3, count P3 and its 25
\* voters under T1 and have no entry for W01, and leaves the region, turf
\* and voters of P1 and P2 as they were.
C22_ScenarioMovesP3 ==
    [][ScenarioApplyStep =>
        /\ shown(view'.filtered_metrics, "3") =>
              /\ WideTurfs[1] \notin DOMAIN view'.turf_summary
              /\ TurfNames[1] \in DOMAIN view'.turf_summary
              /\ view'.turf_summary[TurfNames[1]].voters =
                    25 + (IF shown(view'.filtered_metrics, "1") THEN 100 ELSE 0)
              /\ view'.turf_summary[TurfNames[1]].precinct_count =
                    1 + (IF shown(view'.filtered_metrics, "1") THEN 1 ELSE 0)
        /\ \A i \in {1, 2} :
              session_state'.master_df.rows[i] = df_metrics.rows[i]
        /\ session_state'.master_df.rows[3] =
              [df_metrics.rows[3] EXCEPT !.Current_Turf = TurfNames[1]]]_vars

\* The edit of the example has been applied under a selection of region R02
\* alone, and the summary lists P3 under T1.
C22_Witness ==
    /\ view.message = MSG_APPLIED
    /\ session_state.changed_precincts = {"3"}
    /\ session_state.master_df.rows[3].Current_Turf = TurfNames[1]
    /\ view.selected_regions = {RegionNames[2]}
    /\ shown(view.filtered_metrics, "3")
    /\ view.turf_summary[TurfNames[1]].voters = 25

\* The Apply handler on an editor frame that holds a row of a precinct the
\* working copy has no row for.  The editor of the script lists rows of the
\* working copy only; the handler itself takes whatever frame it is given.
unknown_row == load_metrics([columns |-> AllColumns,
                             rows |-> <<CsvRow(NRows + 1, "R01", "T1", 1, 1)>>]).rows[1]

PappyUnknownIdInit ==
    \E csv \in PappyCsvFiles :
    \E e \in [Updated_Region : Regions \cup {None}, Updated_Turf : Turfs \cup {None}] :
        /\ is_staged(e)
        /\ unknown_row.van_precinct_id
              \notin {load_metrics(csv).rows[i].van_precinct_id : i \in DOMAIN csv.rows}
        /\ df_metrics = load_metrics(csv)
        /\ geojson_data = load_geojson(FeatureList(csv, {1, 2, 3}))
        /\ selected_regions_raw = {ALL_REGIONS}
        /\ turfs_ms = {}
        /\ output_dir = <<>>
        /\ df_upd = <<>>
        /\ runs = 0
        /\ hash_seed = <<>>
        /\ cache_data = <<>>
        /\ LET ss == [master_df |-> df_metrics, changed_precincts |-> {},
                      precinct_editor |-> <<>>]
               v == PappyScript(ss, df_metrics, geojson_data, {ALL_REGIONS}, {}, NO_MESSAGE)
           IN  /\ view = [v EXCEPT !.edit_df = Append(@, unknown_row)]
               /\ session_state =
                      [ss EXCEPT !.precinct_editor = Append(blank_edits(v.edit_df), e)]

SpecPappyUnknownId == PappyUnknownIdInit /\ [][PappyNext]_vars

\* The editor rows with a staged field whose id matches no row of the
\* working copy.
unknown_staged ==
    {k \in DOMAIN view.edit_df :
        /\ is_staged(session_state.precinct_editor[k])
        /\ rows_of(session_state.master_df, view.edit_df[k].van_precinct_id) = {}}

CsvIdCells(i) == {[num |-> i], [dec |-> i], [missing |-> TRUE],
                  [str |-> "P" \o ToString(i)]}

\* The id of precinct i in the GeoJSON: an int, a float or the digits as a
\* string.
JsonIds(i) == {[num |-> i], [dec |-> i], [str |-> ToString(i)]}

LoadCsvFiles ==
    {[columns |-> AllColumns,
      rows |-> [i \in 1..NRows |->
                  [CsvRow(i, RegionNames[((i - 1) % Len(RegionNames)) + 1],
                          TurfNames[((i - 1) % Len(TurfNames)) + 1], 1, 1)
                     EXCEPT !.van_precinct_id = cell[i]]]] :
        cell \in {c \in [1..NRows -> UNION {CsvIdCells(i) : i \in 1..NRows}] :
                     \A i \in 1..NRows : c[i] \in CsvIdCells(i)}}

LoadGeoJsonFiles(csv) ==
    {[i \in 1..NRows |-> [Feature(csv, i) EXCEPT !.van_precinct_id = id[i]]] :
        id \in {c \in [1..NRows -> UNION {JsonIds(i) : i \in 1..NRows}] :
                   \A i \in 1..NRows : c[i] \in JsonIds(i)}}

LoadInit ==
    \E csv \in LoadCsvFiles : \E geo \in LoadGeoJsonFiles(csv) :
        /\ output_dir = [csv |-> csv, geojson |-> geo]
        /\ df_metrics = load_metrics(csv)
        /\ geojson_data = load_geojson(geo)
        /\ selected_regions_raw = {ALL_REGIONS}
        /\ turfs_ms = {}
        /\ session_state = <<>>
        /\ df_upd = <<>>
        /\ runs = 0
        /\ hash_seed = <<>>
        /\ cache_data = <<>>
        /\ view = AppScript(df_metrics, geojson_data, {ALL_REGIONS}, {})

SpecLoad == LoadInit /\ [][AppNext]_vars

\* The precinct a source scalar denotes: the number it writes (0 for none).
precinct_of(x) ==
    IF "num" \in DOMAIN x THEN x.num
    ELSE IF "dec" \in DOMAIN x THEN x.dec
    ELSE IF "str" \in DOMAIN x /\ \E n \in 1..NRows : ToString(n) = x.str
         THEN CHOOSE n \in 1..NRows : ToString(n) = x.str
    ELSE 0

\* C17: a table row and a feature whose source ids denote the same precinct
\* in whatever scalar representation have the same key after loading, and
\* the join matches them: the feature is rendered when the row is filtered.
C17_SamePrecinctSameKey ==
    \A i \in DOMAIN output_dir.csv.rows, j \in DOMAIN output_dir.geojson :
        (/\ precinct_of(output_dir.csv.rows[i].van_precinct_id) # 0
         /\ precinct_of(output_dir.csv.rows[i].van_precinct_id)
               = precinct_of(output_dir.geojson[j].van_precinct_id)) =>
            /\ df_metrics.rows[i].van_precinct_id = geojson_data[j].van_precinct_id
            /\ Member(df_metrics.rows[i], view.filtered_metrics) =>
                  \E k \in DOMAIN view.filtered_features :
                      view.filtered_features[k] = geojson_data[j]

\* The loaded feature with the id of a rendered one.
loaded_feature(f) ==
    geojson_data[CHOOSE j \in DOMAIN geojson_data :
                    geojson_data[j].van_precinct_id = f.van_precinct_id]

\* The first row of the working copy with the id of a rendered feature.
current_row(f) ==
    session_state.master_df.rows[
        CHOOSE i \in rows_of(session_state.master_df, f.van_precinct_id) :
            \A j \in rows_of(session_state.master_df, f.van_precinct_id) : i <= j]

\* C18 as stated: an applied edit does not reach the region and turf copies
\* of the loaded features, so every rendered feature still carries the
\* labels the GeoJSON file gave it.
C18_FeaturesKeepLoadedLabels ==
    \A k \in DOMAIN view.filtered_features :
        LET f == view.filtered_features[k]
        IN  /\ f.Current_Region = loaded_feature(f).Current_Region
            /\ f.Current_Turf = loaded_feature(f).Current_Turf

\* C18 amended: every run copies the working copy's region and turf into
\* the features, so each rendered feature carries the region and turf of
\* the working copy's row for its id, also after an Apply and its rerun.
C18_RenderedFeaturesFollowWorkingCopy ==
    \A k \in DOMAIN view.filtered_features :
        LET f == view.filtered_features[k]
        IN  /\ f.Current_Region = current_row(f).Current_Region
            /\ f.Current_Turf = current_row(f).Current_Turf

\* After an Apply and its rerun a rendered feature carries a label that the
\* GeoJSON file did not give it.
C18_Witness ==
    /\ view.message = MSG_APPLIED
    /\ \E k \in DOMAIN view.filtered_features :
        view.filtered_features[k].Current_Turf
            # loaded_feature(view.filtered_features[k]).Current_Turf

\* Two sessions of pappy3.py in one server process.  The tables and
\* features that st.cache_data holds (df_metrics, geojson_data) belong to
\* the process and are handed out as copies; st.session_state, the widget
\* values and the rendered results belong to each session.
Sessions == {"s1", "s2"}

\* most script runs of the two sessions together
MaxRuns == 4

\* a variant that keeps the working copy and the changed-set in one place
\* for the whole process
process_store(states, s, ss) ==
    [t \in DOMAIN states |->
        IF t = s THEN ss
        ELSE [states[t] EXCEPT !.master_df = ss.master_df,
                               !.changed_precincts = ss.changed_precincts]]

\* st.session_state: what a run of session s writes is stored for s only
session_store(states, s, ss) == [states EXCEPT ![s] = ss]

\* a run of the script in session s
Pappy2Run(s, ss, raw, ms, msg) ==
    LET run == pappy_rerun(view[s], ss, df_metrics, geojson_data, raw, ms, msg)
    IN  /\ runs < MaxRuns
        /\ runs' = runs + 1
        /\ selected_regions_raw' = [selected_regions_raw EXCEPT ![s] = run.selected_regions_raw]
        /\ turfs_ms' = [turfs_ms EXCEPT ![s] = run.turfs_ms]
        /\ session_state' = session_store(session_state, s, run.session_state)
        /\ view' = [view EXCEPT ![s] = run.view]
        /\ UNCHANGED <<df_metrics, geojson_data, output_dir, df_upd, hash_seed, cache_data>>

\* the table both sessions load: two precincts of one region in two turfs
Pappy2CsvFiles ==
    {[columns |-> AllColumns,
      rows |-> <<CsvRow(1, "R01", "T1", 1, 1), CsvRow(2, "R01", "T2", 2, 1)>>]}

Pappy2Init ==
    \E csv \in Pappy2CsvFiles :
        /\ df_metrics = load_metrics(csv)
        /\ geojson_data = load_geojson(FeatureList(csv, {1, 2, 3}))
        /\ selected_regions_raw = [s \in Sessions |-> {}]
        /\ turfs_ms = [s \in Sessions |-> {}]
        /\ session_state = [s \in Sessions |->
                               [master_df |-> df_metrics,
                                changed_precincts |-> {},
                                precinct_editor |-> <<>>]]
        /\ output_dir = <<>>
        /\ df_upd = <<>>
        /\ runs = 0
        /\ hash_seed = <<>>
        /\ cache_data = <<>>
        /\ view = [s \in Sessions |->
                      PappyScript(session_state[s], df_metrics, geojson_data,
                                  {}, {}, NO_MESSAGE)]

Pappy2SelectRegions ==
    \E s \in Sessions :
    \E raw \in SUBSET pappy_regions_with_all(session_state[s].master_df) :
        /\ raw # selected_regions_raw[s]
        /\ Pappy2Run(s, session_state[s], raw, turfs_ms[s], NO_MESSAGE)

Pappy2SelectTurfs ==
    \E s \in Sessions :
        /\ view[s].selected_regions # {}
        /\ \E ms \in SUBSET view[s].available_turfs :
            /\ ms # turfs_ms[s]
            /\ Pappy2Run(s, session_state[s], selected_regions_raw[s], ms, NO_MESSAGE)

Pappy2Stage ==
    \E s \in Sessions :
        /\ view[s].edit_df # <<>>
        /\ \E k \in DOMAIN view[s].edit_df :
           \E e \in [Updated_Region : view[s].all_regions \cup {None},
                      Updated_Turf : view[s].all_turfs \cup {None}] :
            LET edits == [session_state[s].precinct_editor EXCEPT ![k] = e]
            IN  /\ \/ e.Updated_Region = session_state[s].precinct_editor[k].Updated_Region
                   \/ e.Updated_Turf = session_state[s].precinct_editor[k].Updated_Turf
                /\ edits # session_state[s].precinct_editor
                /\ Cardinality({j \in DOMAIN edits : is_staged(edits[j])}) <= MaxStaged
                /\ Pappy2Run(s, pappy_stage(session_state[s], view[s].edit_df, k, e),
                             selected_regions_raw[s], turfs_ms[s], NO_MESSAGE)

Pappy2Apply ==
    \E s \in Sessions :
        /\ view[s].edit_df # <<>>
        /\ LET edits == session_state[s].precinct_editor
           IN  IF updates_made(edits)
               THEN Pappy2Run(s, pappy_apply(session_state[s], view[s].edit_df, edits),
                              selected_regions_raw[s], turfs_ms[s], MSG_APPLIED)
               ELSE Pappy2Run(s, session_state[s], selected_regions_raw[s], turfs_ms[s],
                              MSG_NOTHING_TO_APPLY)

Pappy2Reset ==
    \E s \in Sessions :
        /\ view[s].edit_df # <<>>
        /\ IF session_state[s].changed_precincts # {}
           THEN Pappy2Run(s, pappy_reset(session_state[s], df_metrics),
                          selected_regions_raw[s], turfs_ms[s], MSG_RESET)
           ELSE Pappy2Run(s, session_state[s], selected_regions_raw[s], turfs_ms[s],
                          MSG_NOTHING_TO_RESET)

Pappy2Next ==
    \/ Pappy2SelectRegions
    \/ Pappy2SelectTurfs
    \/ Pappy2Stage
    \/ Pappy2Apply
    \/ Pappy2Reset

SpecPappy2 == Pappy2Init /\ [][Pappy2Next]_vars

BoxCells ==
    {[min_lat |-> float(1), min_lon |-> float(1), max_lat |-> float(2), max_lon |-> float(2)],
     [min_lat |-> float(0), min_lon |-> float(2), max_lat |-> float(1), max_lon |-> float(3)],
     [min_lat |-> float_nan, min_lon |-> float_nan, max_lat |-> float_nan, max_lon |-> float_nan],
     [min_lat |-> float(3), min_lon |-> float_nan, max_lat |-> float_nan, max_lon |-> float_nan]}

WithBox(row, box) ==
    [c \in DOMAIN row \cup BBOX_COLUMNS |-> IF c \in BBOX_COLUMNS THEN box[c] ELSE row[c]]

BoundsCsvFiles ==
    UNION {{[columns |-> AllColumns,
             rows |-> [i \in 1..n |-> CsvRow(i, RegionNames[1], TurfNames[1], 1, 1)]]}
           \cup {[columns |-> AllColumns \cup BBOX_COLUMNS,
                  rows |-> [i \in 1..n |->
                              WithBox(CsvRow(i, RegionNames[1], TurfNames[1], 1, 1), box[i])]] :
                    box \in [1..n -> BoxCells]} :
           n \in 1..NRows}

AppBoundsInit == \E csv \in BoundsCsvFiles : \E geo \in GeoJsonFiles(csv) : AppInitWith(csv, geo)

SpecAppBounds == AppBoundsInit /\ [][AppNext]_vars

\* The values the filtered rows have in a bounding-box column.
box_values(c) ==
    {view.filtered_metrics[i][c].val :
        i \in {j \in DOMAIN view.filtered_metrics :
                  /\ c \in DOMAIN view.filtered_metrics[j]
                  /\ ~view.filtered_metrics[j][c].nan}}

least(S) == IF S = {} THEN float_nan ELSE float(CHOOSE x \in S : \A y \in S : x <= y)
greatest(S) == IF S = {} THEN float_nan ELSE float(CHOOSE x \in S : \A y \in S : x >= y)

\* C20: the map gets no bounding box when no filtered row has a bounding-box
\* value, and otherwise the box from the least min_lat and min_lon to the
\* greatest max_lat and max_lon over the rows that have them.
C20_BoundsAreReference ==
    view.bounds =
        IF \A c \in BBOX_COLUMNS : box_values(c) = {}
        THEN NO_BOUNDS
        ELSE << <<least(box_values("min_lat")), least(box_values("min_lon"))>>,
                <<greatest(box_values("max_lat")), greatest(box_values("max_lon"))>> >>

\* The colours of app.py and pappy3.py.
\* The 0-based position of turf t among the ascending distinct turfs.
position(turfs, t) == Cardinality({u \in turfs : Rank(u) < Rank(t)})

\* The palette entry at a position, wrapping around after 20 entries.
palette_entry(turfs, t) == palette[(position(turfs, t) % 20) + 1]

joined_turfs(feats) == {feats[i].Current_Turf : i \in DOMAIN feats} \ {NaN}

\* A statewide table and map with one precinct per wide turf name.
WideRows == [i \in DOMAIN WideTurfs |-> CsvRow(i, "R01", WideTurfs[i], 1, 1)]
WideFeatures == [i \in DOMAIN WideTurfs |-> Feature([rows |-> WideRows], i)]

\* The colour maps the two scripts build for the wide table.
WideAppColours == turf_colors_map(unique_turfs(WideRows))
WidePappyColours == pappy_turf_colors_map(WideFeatures)

\* The colour each wide turf has by its position.
WideExpected == [k \in DOMAIN WideTurfs |-> palette_entry(Range(WideTurfs), WideTurfs[k])]

\* pappy3.py builds its map from the joined features; a missing turf among
\* them cannot be sorted with the names, so the map exists only without one.
pappy_colours_by_joined_position(feats) ==
    NaN \notin {feats[i].Current_Turf : i \in DOMAIN feats} =>
        \A t \in joined_turfs(feats) :
            pappy_turf_colors_map(feats)[t] = palette_entry(joined_turfs(feats), t)

\* C10 as stated: every rendered feature with a turf is filled with
\* palette[i mod 20], i the 0-based position of its turf among the sorted
\* distinct turfs of the joined feature set, in app.py and in pappy3.py.
C10_ColourByJoinedFeaturePosition ==
    LET feats == view.filtered_features
    IN  /\ \A i \in DOMAIN feats :
              feats[i].Current_Turf # NaN =>
                  view.fill[i] = palette_entry(joined_turfs(feats), feats[i].Current_Turf)
        /\ pappy_colours_by_joined_position(feats)

\* C10 amended: app.py fills a rendered feature with palette[i mod 20], i the
\* 0-based position of its turf among the sorted distinct non-missing turfs
\* of the filtered rows (the default fill when no filtered row has the
\* turf); pappy3.py takes the position among the turfs of the joined
\* features; with 22 turfs the 21st and 22nd get the first two colours.
C10_ColourByFilteredRowPosition ==
    LET feats == view.filtered_features
        row_turfs == TurfsOf(view.filtered_metrics)
    IN  /\ \A i \in DOMAIN feats :
              view.fill[i] =
                  IF feats[i].Current_Turf \in row_turfs
                  THEN palette_entry(row_turfs, feats[i].Current_Turf)
                  ELSE DEFAULT_FILL
        /\ pappy_colours_by_joined_position(feats)
        /\ \A k \in DOMAIN WideTurfs :
              /\ WideAppColours[WideTurfs[k]] = WideExpected[k]
              /\ WidePappyColours[WideTurfs[k]] = WideExpected[k]
        /\ WideExpected[20] = "#7570b3"
        /\ WideExpected[21] = "#e41a1c"
        /\ WideExpected[22] = "#377eb8"

\* A filtered row without a feature whose turf sorts before the turf of a
\* rendered feature: the two positions differ.
C10_Witness ==
    \E i \in DOMAIN view.filtered_features :
        LET t == view.filtered_features[i].Current_Turf
        IN  /\ t # NaN
            /\ position(TurfsOf(view.filtered_metrics), t)
                   # position(joined_turfs(view.filtered_features), t)

----------------------------------------------------------------------------
(* old_apps/app.py *)

old_regions(df) == {df.rows[i].Current_Region : i \in DOMAIN df.rows}

old_selected_regions(df, raw) ==
    IF ALL_REGIONS \in raw THEN old_regions(df) ELSE raw \ {ALL_REGIONS}

old_available_turfs(df, sel) ==
    LET rows == SelectSeq(df.rows, LAMBDA r : r.Current_Region \in sel)
    IN  {rows[i].Current_Turf : i \in DOMAIN rows}

old_filtered_metrics(df, sel, turfs) ==
    IF sel # {}
    THEN LET byRegion == SelectSeq(df.rows, LAMBDA r : r.Current_Region \in sel)
         IN  IF turfs # {}
             THEN SelectSeq(byRegion, LAMBDA r : r.Current_Turf \in turfs)
             ELSE byRegion
    ELSE <<>>

\* unique_turfs = list(set(...)): the distinct turfs of the joined features
\* in the order in which the process enumerates a set of strings
old_unique_turfs(feats, seed) ==
    SelectSeq(seed, LAMBDA t : t \in {feats[i].Current_Turf : i \in DOMAIN feats})

\* turf_colors: the i-th (from 0) of unique_turfs gets colors[i % len(colors)]
old_turf_colors(turfs_list) ==
    [t \in Range(turfs_list) |->
        LET i == CHOOSE k \in DOMAIN turfs_list : turfs_list[k] = t
        IN  palette[((i - 1) % Len(palette)) + 1]]

\* one run of the script in a process whose set order is seed
OldAppScript(df, features, raw, ms, seed) ==
    LET sel == old_selected_regions(df, raw)
        avail == IF sel # {} THEN old_available_turfs(df, sel) ELSE {}
        turfs == selected_turfs(sel, ms)
        filtered == old_filtered_metrics(df, sel, turfs)
        feats == filtered_features(filtered, features)
        colors == IF feats # <<>> THEN old_turf_colors(old_unique_turfs(feats, seed))
                  ELSE <<>>
    IN  [regions |-> old_regions(df),
         selected_regions |-> sel,
         available_turfs |-> avail,
         selected_turfs |-> turfs,
         filtered_metrics |-> filtered,
         total_precincts |-> Len(filtered),
         total_voters |-> Sum(voters_col(filtered)),
         total_supporters |-> Sum(supporters_col(filtered)),
         filtered_features |-> feats,
         bounds |-> IF feats # <<>>
                    THEN << <<series_min(filtered, "min_lat"), series_min(filtered, "min_lon")>>,
                            <<series_max(filtered, "max_lat"), series_max(filtered, "max_lon")>> >>
                    ELSE NO_BOUNDS,
         turf_colors |-> colors,
         fill |-> [i \in DOMAIN feats |-> fillColor(colors, feats[i])]]

\* Two server processes that serve the same two files, such as the server
\* before and after a restart.
Processes == {"p1", "p2"}

\* the orders in which a process may enumerate the sample turf names
HashSeeds == {p \in [1..Cardinality(Turfs) -> Turfs] : Range(p) = Turfs}

\* tables of NRows precincts with bounding boxes, in any regions and turfs
OldCsvFiles ==
    {[columns |-> AllColumns \cup BBOX_COLUMNS,
      rows |-> [i \in 1..NRows |->
                  WithBox(CsvRow(i, rt[i][1], rt[i][2], i, 1),
                          [c \in BBOX_COLUMNS |-> float(i)])]] :
        rt \in [1..NRows -> Regions \X Turfs]}

OldAppInit ==
    \E csv \in OldCsvFiles : \E seeds \in [Processes -> HashSeeds] :
        /\ df_metrics = load_metrics(csv)
        /\ geojson_data = load_geojson(FeatureList(csv, DOMAIN csv.rows))
        /\ hash_seed = seeds
        /\ cache_data = <<>>
        /\ selected_regions_raw = [p \in Processes |-> {}]
        /\ turfs_ms = [p \in Processes |-> {}]
        /\ view = [p \in Processes |->
                      OldAppScript(df_metrics, geojson_data, {}, {}, hash_seed[p])]
        /\ session_state = <<>>
        /\ output_dir = <<>>
        /\ df_upd = <<>>
        /\ runs = 0

\* a run of the script in process p
OldAppRun(p, raw, ms) ==
    /\ selected_regions_raw' = [selected_regions_raw EXCEPT ![p] = raw]
    /\ turfs_ms' = [turfs_ms EXCEPT ![p] = ms]
    /\ view' = [view EXCEPT ![p] =
                   OldAppScript(df_metrics, geojson_data, raw, ms, hash_seed[p])]
    /\ UNCHANGED <<df_metrics, geojson_data, session_state, output_dir, df_upd, runs,
                   hash_seed, cache_data>>

\* the user of process p changes the region multiselect
OldAppSelectRegions ==
    \E p \in Processes :
    \E raw \in SUBSET ({ALL_REGIONS} \cup view[p].regions) :
        /\ raw # selected_regions_raw[p]
        /\ LET sel == old_selected_regions(df_metrics, raw)
               avail == IF sel # {} THEN old_available_turfs(df_metrics, sel) ELSE {}
           IN  OldAppRun(p, raw, turf_widget(view[p], sel, avail, turfs_ms[p]))

\* the user of process p changes the turf multiselect
OldAppSelectTurfs ==
    \E p \in Processes :
        /\ view[p].selected_regions # {}
        /\ \E ms \in SUBSET view[p].available_turfs :
            /\ ms # turfs_ms[p]
            /\ OldAppRun(p, selected_regions_raw[p], ms)

OldAppNext == OldAppSelectRegions \/ OldAppSelectTurfs

SpecOldApp == OldAppInit /\ [][OldAppNext]_vars

\* C23: two renders of the same dataset with the same selection, hence the
\* same joined features, give every turf the same palette colour.
C23_SameRenderSameColours ==
    \A p, q \in Processes :
        (/\ view[p].selected_regions = view[q].selected_regions
         /\ view[p].selected_turfs = view[q].selected_turfs
         /\ view[p].filtered_features = view[q].filtered_features) =>
            /\ view[p].turf_colors = view[q].turf_colors
            /\ view[p].fill = view[q].fill

(***************************************************************************)
(* old_apps/aok2.py: the original and the updated table side by side.  The *)
(* two multiselects are keyed (regions_ms, turfs_ms), so their values live *)
(* in st.session_state, and the "Apply quick view" button writes them.     *)
(***************************************************************************)
QUICK_VIEWS ==
    ("R07 changes" :>
        [regions |-> {"R07 - South Richmond", "R11 - Southside", "R06 - North Richmond"},
         turfs |-> {"R07F - Placeholder3", "R07D - Placeholder2",
                    "R11E - Colonial Heights / Chesterfield", "R07E - North Chesterfield"}]) @@
    ("R09 split" :>
        [regions |-> {"R09 - Suffolk"},
         turfs |-> {"R09F - South", "R09A - Chesapeake", "R09E - Portsmouth"}]) @@
    ("R10 redistribution" :>
        [regions |-> {"R10 - Virginia Beach / Norfolk"},
         turfs |-> {"R10F - North", "R10B - Chesapeake", "R10H - Portsmouth",
                    "R10D - Norfolk", "R10E - Norfolk Central", "R10G - North Norfolk",
                    "R10J - West Norfolk"}])

\* The blank entry that heads the selectbox.
NO_QUICK_VIEW == ""

quick_view_options == {NO_QUICK_VIEW} \cup DOMAIN QUICK_VIEWS

aok2_regions(orig, upd) == RegionsOf(orig.rows) \cup RegionsOf(upd.rows)

aok2_selected_regions(all_regions, raw) ==
    IF ALL_REGIONS \in raw THEN all_regions ELSE raw \ {ALL_REGIONS}

aok2_turfs_of(df, sel) ==
    TurfsOf(SelectSeq(df.rows, LAMBDA row : row.Current_Region \in sel))

aok2_turfs_all(orig, upd, sel) ==
    IF sel # {} THEN aok2_turfs_of(orig, sel) \cup aok2_turfs_of(upd, sel) ELSE {}

\* The value a keyed multiselect starts a run with: the session-state entry
\* when the key is set, the default=[] otherwise.
keyed_value(ss, key) == IF key \in DOMAIN ss THEN ss[key] ELSE {}

\* Streamlit builds that validate a value written through session_state
\* raise when it names something outside the options; the others return it.
widget_raises(value, options, strict) == strict /\ ~(value \subseteq options)

\* One run of the sidebar and the filter.  A widget that raises ends the run.
Aok2Script(orig, upd, ss, qv, strict) ==
    LET all_regions == aok2_regions(orig, upd)
        with_all == {ALL_REGIONS} \cup all_regions
        raw == keyed_value(ss, "regions_ms")
        sel == aok2_selected_regions(all_regions, raw)
        turfs_all == aok2_turfs_all(orig, upd, sel)
        turfs == keyed_value(ss, "turfs_ms")
        stopped == [qv |-> qv, error |-> TRUE, rendered |-> {},
                    regions_with_all |-> with_all, selected_regions |-> {},
                    turfs_all |-> {}, selected_turfs |-> {},
                    filtered_orig |-> <<>>, filtered_upd |-> <<>>]
    IN  IF widget_raises(raw, with_all, strict)
        THEN stopped
        ELSE IF widget_raises(turfs, turfs_all, strict)
        THEN [stopped EXCEPT !.rendered = {"regions_ms"},
                             !.selected_regions = sel, !.turfs_all = turfs_all]
        ELSE [qv |-> qv, error |-> FALSE, rendered |-> {"regions_ms", "turfs_ms"},
              regions_with_all |-> with_all, selected_regions |-> sel,
              turfs_all |-> turfs_all, selected_turfs |-> turfs,
              filtered_orig |-> filter_df(orig, sel, turfs),
              filtered_upd |-> filter_df(upd, sel, turfs)]

\* A rendered keyed widget registers its value under its key.
aok2_registered(ss, rendered) ==
    [k \in DOMAIN ss \cup rendered |-> keyed_value(ss, k)]

Aok2Run(ss, qv, strict) ==
    LET v == Aok2Script(df_metrics, df_upd, ss, qv, strict)
    IN  /\ view' = v
        /\ session_state' = aok2_registered(ss, v.rendered)
        /\ UNCHANGED <<df_metrics, df_upd, geojson_data, selected_regions_raw,
                       turfs_ms, output_dir, runs, hash_seed, cache_data>>

\* Sample names: two regions and two turfs that the quick views name.
AokRegions == {"R09 - Suffolk", "R10 - Virginia Beach / Norfolk"}
AokTurfs == {"R09F - South", "R10F - North"}

\* Original tables, and updated tables that move precincts between turfs.
AokCsvFiles(region_of) ==
    {[columns |-> AllColumns,
      rows |-> [i \in 1..NRows |-> CsvRow(i, region_of[i], turf_of[i], 1, 1)]] :
        turf_of \in [1..NRows -> AokTurfs]}

Aok2Init ==
    \E region_of \in [1..NRows -> AokRegions] :
      \E orig \in AokCsvFiles(region_of), upd \in AokCsvFiles(region_of) :
        /\ df_metrics = load_metrics(orig)
        /\ df_upd = load_metrics(upd)
        /\ geojson_data = <<>>
        /\ selected_regions_raw = {}
        /\ turfs_ms = {}
        /\ output_dir = <<>>
        /\ runs = 0
        /\ hash_seed = <<>>
        /\ cache_data = <<>>
        /\ session_state = aok2_registered(<<>>, {"regions_ms", "turfs_ms"})
        /\ view = Aok2Script(load_metrics(orig), load_metrics(upd), <<>>,
                             NO_QUICK_VIEW, FALSE)

\* The user picks an entry of the "Quick View" selectbox.
Aok2SelectQuickView ==
    \E qv \in quick_view_options, strict \in BOOLEAN :
        /\ qv # view.qv
        /\ Aok2Run(session_state, qv, strict)

\* "Apply quick view": both lists of the view are written as they stand.
Aok2ApplyQuickView ==
    \E strict \in BOOLEAN :
        /\ view.qv # NO_QUICK_VIEW
        /\ Aok2Run([k \in DOMAIN session_state \cup {"regions_ms", "turfs_ms"} |->
                       IF k = "regions_ms" THEN QUICK_VIEWS[view.qv].regions
                       ELSE IF k = "turfs_ms" THEN QUICK_VIEWS[view.qv].turfs
                       ELSE session_state[k]],
                   view.qv, strict)

\* "Clear selection": both keys are popped and the widgets restart blank.
Aok2ClearSelection ==
    \E strict \in BOOLEAN :
        /\ view.qv # NO_QUICK_VIEW
        /\ Aok2Run([k \in DOMAIN session_state \ {"regions_ms", "turfs_ms"} |->
                       session_state[k]],
                   view.qv, strict)

\* The user edits the region multiselect; a turf multiselect whose options
\* change with it is a new widget and restarts blank.
Aok2SelectRegions ==
    \E raw \in SUBSET view.regions_with_all, strict \in BOOLEAN :
        /\ "regions_ms" \in view.rendered
        /\ raw # session_state.regions_ms
        /\ LET sel == aok2_selected_regions(aok2_regions(df_metrics, df_upd), raw)
               options == aok2_turfs_all(df_metrics, df_upd, sel)
               kept == IF "turfs_ms" \in view.rendered /\ options = view.turfs_all
                       THEN session_state.turfs_ms ELSE {}
           IN  Aok2Run([session_state EXCEPT !.regions_ms = raw, !.turfs_ms = kept],
                       view.qv, strict)

\* The user edits the turf multiselect.
Aok2SelectTurfs ==
    \E ms \in SUBSET view.turfs_all, strict \in BOOLEAN :
        /\ "turfs_ms" \in view.rendered
        /\ ms # session_state.turfs_ms
        /\ Aok2Run([session_state EXCEPT !.turfs_ms = ms], view.qv, strict)

Aok2Next ==
    \/ Aok2SelectQuickView
    \/ Aok2ApplyQuickView
    \/ Aok2ClearSelection
    \/ Aok2SelectRegions
    \/ Aok2SelectTurfs

SpecAok2 == Aok2Init /\ [][Aok2Next]_vars

\* C5: in every state the active turf set holds only turfs that occur in
\* rows of the active regions, also after "Apply quick view" has written a
\* quick view's turf list into the turf selection.
C5_ActiveTurfsWithinActiveRegions ==
    LET sel == aok2_selected_regions(aok2_regions(df_metrics, df_upd),
                                     session_state.regions_ms)
    IN  session_state.turfs_ms \subseteq aok2_turfs_all(df_metrics, df_upd, sel)

\* aok2.py and aok3.py: the loaders are cached on (path, mtime).
\* Largest modification time of a file.
MaxMtime == 2

Mtimes == 1..MaxMtime

METRICS_ORIG == "output/precincts_metrics.csv"
METRICS_UPD == "output/precincts_metrics_updated.csv"

\* load_metrics(path, Path(path).stat().st_mtime_ns) under @st.cache_data:
\* the stored value when the cache has the key (path, mtime), otherwise the
\* file is read and the result stored
cached_load_metrics(cache, path, file) ==
    IF <<path, file.mtime>> \in DOMAIN cache
    THEN [value |-> cache[<<path, file.mtime>>], cache |-> cache, read |-> {}]
    ELSE [value |-> load_metrics(file.contents),
          cache |-> cache @@ (<<path, file.mtime>> :> load_metrics(file.contents)),
          read |-> {path}]

\* what a run loads from the files dir with the cache as it finds it: the
\* two tables, the cache it leaves, the mtimes it saw and the paths it read
aok_load(cache, dir) ==
    LET orig == cached_load_metrics(cache, METRICS_ORIG, dir[METRICS_ORIG])
        upd == cached_load_metrics(orig.cache, METRICS_UPD, dir[METRICS_UPD])
    IN  [df_orig |-> orig.value, df_upd |-> upd.value, cache |-> upd.cache,
         stat |-> [path \in DOMAIN dir |-> dir[path].mtime],
         read |-> orig.read \cup upd.read]

\* the contents a metrics file may have: precinct P1 in either sample turf
AokCacheCsvFiles ==
    {[columns |-> AllColumns,
      rows |-> <<CsvRow(1, "R09 - Suffolk", turf, 1, 1)>>] : turf \in AokTurfs}

AokFiles == [mtime : Mtimes, contents : AokCacheCsvFiles]

\* a run of the script: the loaders, then the sidebar and the filter
AokCacheRunOf(cache, dir, ss) ==
    LET loaded == aok_load(cache, dir)
        v == Aok2Script(loaded.df_orig, loaded.df_upd, ss, NO_QUICK_VIEW, FALSE)
    IN  [df_orig |-> loaded.df_orig, df_upd |-> loaded.df_upd, cache |-> loaded.cache,
         session_state |-> aok2_registered(ss, v.rendered),
         view |-> [script |-> v, stat |-> loaded.stat, read |-> loaded.read]]

AokCacheInit ==
    \E dir \in [{METRICS_ORIG, METRICS_UPD} -> AokFiles] :
        LET run == AokCacheRunOf(<<>>, dir, <<>>)
        IN  /\ output_dir = dir
            /\ cache_data = run.cache
            /\ df_metrics = run.df_orig
            /\ df_upd = run.df_upd
            /\ session_state = run.session_state
            /\ view = run.view
            /\ geojson_data = <<>>
            /\ selected_regions_raw = {}
            /\ turfs_ms = {}
            /\ runs = 0
            /\ hash_seed = <<>>

\* somebody replaces a metrics file: new contents, and the modification
\* time the writer leaves on it
AokWriteFile ==
    \E path \in DOMAIN output_dir : \E file \in AokFiles :
        /\ file # output_dir[path]
        /\ output_dir' = [output_dir EXCEPT ![path] = file]
        /\ UNCHANGED <<df_metrics, geojson_data, selected_regions_raw, turfs_ms, view,
                       session_state, df_upd, runs, hash_seed, cache_data>>

\* the user toggles "Show precinct labels on maps": the script runs again
AokToggleLabels ==
    LET run == AokCacheRunOf(cache_data, output_dir, session_state)
    IN  /\ cache_data' = run.cache
        /\ df_metrics' = run.df_orig
        /\ df_upd' = run.df_upd
        /\ session_state' = run.session_state
        /\ view' = run.view
        /\ UNCHANGED <<geojson_data, selected_regions_raw, turfs_ms, output_dir, runs,
                       hash_seed>>

AokCacheNext == AokWriteFile \/ AokToggleLabels

SpecAokCache == AokCacheInit /\ [][AokCacheNext]_vars

\* The table a run gets for each path.
loaded_tables == (METRICS_ORIG :> df_metrics) @@ (METRICS_UPD :> df_upd)

\* C25: when a rerun finds a file with a modification time other than the
\* one the previous load saw, it returns the data of the file's current
\* contents; when it finds path and modification time as before, it returns
\* the same table and does not read the file.
C25_RerunFollowsMtime ==
    [][output_dir' = output_dir =>
        \A path \in DOMAIN output_dir :
            IF output_dir[path].mtime # view.stat[path]
            THEN loaded_tables'[path] = load_metrics(output_dir[path].contents)
            ELSE /\ loaded_tables'[path] = loaded_tables[path]
                 /\ path \notin view'.read]_vars

----------------------------------------------------------------------------
(* old_apps/aok3.py: the quick view applies itself through the defaults of  *)
(* the two keyed multiselects, and two callbacks watch for manual changes.  *)
(* A keyed widget whose arguments (options, default) differ from those of   *)
(* the previous run starts again from its default.                          *)

\* QUICK_VIEWS[qv]["regions"] / ["turfs"], the blank view having none
quick_view_regions(qv) == IF qv \in DOMAIN QUICK_VIEWS THEN QUICK_VIEWS[qv].regions ELSE {}
quick_view_turfs(qv) == IF qv \in DOMAIN QUICK_VIEWS THEN QUICK_VIEWS[qv].turfs ELSE {}

\* the arguments of a multiselect that the previous run did not render
NOT_RENDERED == [options |-> {}, default |-> {NO_QUICK_VIEW}]

\* on_region_change
on_region_change(ss) ==
    IF ss.regions_ms # quick_view_regions(ss.last_quick_view)
    THEN [ss EXCEPT !.manual_filter_change = TRUE] ELSE ss

\* on_turf_change
on_turf_change(ss) ==
    LET expected_turfs == quick_view_turfs(ss.last_quick_view) \cap ss.available_turfs_list
    IN  IF ss.turfs_ms # expected_turfs
        THEN [ss EXCEPT !.manual_filter_change = TRUE] ELSE ss

\* the session state before the first run
aok3_new_session ==
    [manual_filter_change |-> FALSE, last_quick_view |-> NO_QUICK_VIEW,
     quick_view_selector |-> NO_QUICK_VIEW, regions_ms |-> {}, turfs_ms |-> {},
     available_turfs_list |-> {}]

\* One run of the script after the widget `widget` changed: the session
\* state it leaves and what it rendered.  A multiselect whose default is
\* not among its options raises and ends the run.
Aok3Script(orig, upd, ss, prev, widget) ==
    LET ss1 == IF ss.manual_filter_change
               THEN [ss EXCEPT !.manual_filter_change = FALSE,
                               !.last_quick_view = NO_QUICK_VIEW]
               ELSE ss
        qv == ss1.quick_view_selector
        ss2 == [ss1 EXCEPT !.last_quick_view = qv]
        all_regions == aok2_regions(orig, upd)
        regions_args == [options |-> {ALL_REGIONS} \cup all_regions,
                         default |-> quick_view_regions(qv)]
        raw == IF prev.regions_args = regions_args THEN ss2.regions_ms
               ELSE regions_args.default
        sel == aok2_selected_regions(all_regions, raw)
        turfs_all == aok2_turfs_all(orig, upd, sel)
        turfs_args == [options |-> turfs_all,
                       default |-> quick_view_turfs(qv) \cap turfs_all]
        turfs == IF prev.turfs_args = turfs_args THEN ss2.turfs_ms ELSE turfs_args.default
    IN  IF ~(regions_args.default \subseteq regions_args.options)
        THEN [session_state |-> ss2,
              view |-> [changed_widget |-> widget, qv |-> qv, error |-> TRUE,
                        regions_args |-> NOT_RENDERED, turfs_args |-> NOT_RENDERED,
                        selected_regions |-> {}, selected_turfs |-> {},
                        filtered_orig |-> <<>>, filtered_upd |-> <<>>]]
        ELSE [session_state |-> [ss2 EXCEPT !.regions_ms = raw, !.turfs_ms = turfs,
                                            !.available_turfs_list = turfs_all],
              view |-> [changed_widget |-> widget, qv |-> qv, error |-> FALSE,
                        regions_args |-> regions_args, turfs_args |-> turfs_args,
                        selected_regions |-> sel, selected_turfs |-> turfs,
                        filtered_orig |-> filter_df(orig, sel, turfs),
                        filtered_upd |-> filter_df(upd, sel, turfs)]]

Aok3Run(ss, widget) ==
    LET run == Aok3Script(df_metrics, df_upd, ss, view, widget)
    IN  /\ session_state' = run.session_state
        /\ view' = run.view
        /\ UNCHANGED <<df_metrics, df_upd, geojson_data, selected_regions_raw,
                       turfs_ms, output_dir, runs, hash_seed, cache_data>>

Aok3Init ==
    \E region_of \in [1..NRows -> AokRegions] :
      \E orig \in AokCsvFiles(region_of), upd \in AokCsvFiles(region_of) :
        LET run == Aok3Script(load_metrics(orig), load_metrics(upd), aok3_new_session,
                              [regions_args |-> NOT_RENDERED, turfs_args |-> NOT_RENDERED],
                              NO_QUICK_VIEW)
        IN  /\ df_metrics = load_metrics(orig)
            /\ df_upd = load_metrics(upd)
            /\ geojson_data = <<>>
            /\ selected_regions_raw = {}
            /\ turfs_ms = {}
            /\ output_dir = <<>>
            /\ runs = 0
            /\ hash_seed = <<>>
            /\ cache_data = <<>>
            /\ session_state = run.session_state
            /\ view = run.view

\* the user picks an entry of the "Select a view:" selectbox
Aok3SelectQuickView ==
    \E qv \in quick_view_options :
        /\ qv # session_state.quick_view_selector
        /\ Aok3Run([session_state EXCEPT !.quick_view_selector = qv],
                   "quick_view_selector")

\* the user edits the region multiselect: the callback runs, then the script
Aok3SelectRegions ==
    /\ view.regions_args # NOT_RENDERED
    /\ \E raw \in SUBSET view.regions_args.options :
        /\ raw # session_state.regions_ms
        /\ Aok3Run(on_region_change([session_state EXCEPT !.regions_ms = raw]),
                   "regions_ms")

\* the user edits the turf multiselect: the callback runs, then the script
Aok3SelectTurfs ==
    /\ view.turfs_args # NOT_RENDERED
    /\ \E ms \in SUBSET view.turfs_args.options :
        /\ ms # session_state.turfs_ms
        /\ Aok3Run(on_turf_change([session_state EXCEPT !.turfs_ms = ms]), "turfs_ms")

Aok3Next ==
    \/ Aok3SelectQuickView
    \/ Aok3SelectRegions
    \/ Aok3SelectTurfs

SpecAok3 == Aok3Init /\ [][Aok3Next]_vars

\* C26: when the user has set the region or the turf multiselect to a value
\* other than the list of the selected quick view, the rerun ends with the
\* quick-view selector and last_quick_view blank and manual_filter_change
\* False.
C26_ManualChangeBlanksQuickView ==
    [][(\/ /\ view'.changed_widget = "regions_ms"
           /\ session_state'.regions_ms # quick_view_regions(session_state.quick_view_selector)
        \/ /\ view'.changed_widget = "turfs_ms"
           /\ session_state'.turfs_ms #
                 quick_view_turfs(session_state.quick_view_selector)
                     \cap session_state.available_turfs_list) =>
            /\ session_state'.quick_view_selector = NO_QUICK_VIEW
            /\ session_state'.last_quick_view = NO_QUICK_VIEW
            /\ ~session_state'.manual_filter_change]_vars

====
